---- MODULE Spec2Model ----
(***************************************************************************)
(* ascii-dag: the graph store (src/src/graph.rs), the cycle detector       *)
(* (src/src/cycles.rs), the layout passes (src/src/layout.rs) and the      *)
(* renderer (src/src/render/ascii.rs).                                     *)
(*                                                                         *)
(* Conventions.                                                            *)
(*  - A DAG value is a record with the fields of struct DAG.               *)
(*  - Vec indices are 1-based here (index i of the model is index i-1 of   *)
(*    the source); NoIdx (0) stands for Option::None of an index lookup.   *)
(*  - A node is the pair <<id, label>>; a label is a sequence of           *)
(*    one-character strings.                                               *)
(*  - Text is a sequence of tokens, one token per character of the output. *)
(*    The Unicode glyphs are written as ASCII tokens that carry the name   *)
(*    of the source constant; a whole-line message literal of the source   *)
(*    ("Empty DAG", the cycle header, ...) is a single token.              *)
(***************************************************************************)
EXTENDS Integers, Sequences, FiniteSets, TLC

VARIABLES dag, call, ret

vars == <<dag, call, ret>>

----------------------------------------------------------------------------
(* Bounds of the model *)

\* Spec: largest number of edges a graph is grown to.
MaxEdges == 3
\* Spec: longest node list and edge list handed to from_edges.
MaxBatchNodes == 2
MaxBatchEdges == 2
\* SpecGraph: largest number of edges a graph is grown to.
MaxGraphEdges == 3
\* SpecGraph: length of the wide label.
WideLen == 16

\* Spec: node ids (one of them has two decimal digits).
Ids == {1, 10}
\* Spec: the empty label and two labels of different length.
Labels == {<< >>, <<"A">>, <<"B", "B">>}

\* SpecGraph: node ids, and the node lists a graph is constructed from: none
\* (every node is then auto-created by an edge), four nodes of different width,
\* and a list that repeats an id.
GraphIds == {1, 2, 3, 4}
Wide == [k \in 1..WideLen |-> "W"]
FourNodes == <<<<1, Wide>>, <<2, <<"A">>>>, <<3, Wide>>, <<4, << >>>>>>
GraphNodeLists ==
    {<< >>,
     FourNodes,
     <<<<1, <<"A">>>>, <<1, Wide>>, <<2, << >>>>>>}
\* SpecGraph: the edge list of the diamond, handed to from_edges as a whole.
DiamondEdges == <<<<1, 2>>, <<1, 3>>, <<2, 4>>, <<3, 4>>>>

\* SpecConverge: two wide roots, four nodes below them and two targets below
\* those; each of the four has one parent among the roots and one child among
\* the targets, every root has a child and every target a parent.
ConvergeNodes ==
    <<<<1, Wide>>, <<2, Wide>>, <<3, << >>>>, <<4, << >>>>, <<5, << >>>>, <<6, << >>>>,
      <<7, << >>>>, <<8, << >>>>>>
ConvergeRoots == {1, 2}
ConvergeSources == {3, 4, 5, 6}
ConvergeTargets == {7, 8}
ConvergeEdges(pa, ta) ==
    <<<<pa[3], 3>>, <<pa[4], 4>>, <<pa[5], 5>>, <<pa[6], 6>>,
      <<3, ta[3]>>, <<4, ta[4]>>, <<5, ta[5]>>, <<6, ta[6]>>>>


RenderModes == {"Vertical", "Horizontal", "Auto"}

NoIdx == 0

----------------------------------------------------------------------------
(* Glyphs, src/src/render/ascii.rs:8-20 and src/src/graph.rs:337-343 *)

V_LINE == "|"
H_LINE == "-"
ARROW_DOWN == "v"
ARROW_RIGHT == "->"
CYCLE_ARROW == "<=>"
CORNER_DR == "CORNER_DR"
CORNER_DL == "CORNER_DL"
TEE_DOWN == "TEE_DOWN"
TEE_UP == "TEE_UP"
CORNER_UR == "CORNER_UR"
CORNER_UL == "CORNER_UL"
LANGLE == "<"
RANGLE == ">"
LBRACKET == "["
RBRACKET == "]"
SPACE == " "
NL == "\n"

----------------------------------------------------------------------------
(* Sequence helpers (iterator adaptors of the source) *)

Range(s) == {s[i] : i \in DOMAIN s}

Contains(s, x) == \E i \in DOMAIN s : s[i] = x

\* Iterator::position / Iterator::find: the first of the indices that satisfy
\* (hits is the set of them), else NoIdx.
FirstIndex(hits) ==
    IF hits /= {}
    THEN CHOOSE i \in hits : \A j \in hits : i <= j
    ELSE NoIdx

SetAt(s, i, v) == [s EXCEPT ![i] = v]

----------------------------------------------------------------------------
(* Graph store, src/src/graph.rs *)

\* DAG::default / DAG::new
new ==
    [nodes |-> << >>, edges |-> << >>, render_mode |-> "Auto",
     auto_created |-> {}, id_to_index |-> << >>, node_widths |-> << >>,
     children |-> << >>, parents |-> << >>]

\* DAG::with_mode
with_mode(mode) == [new EXCEPT !.render_mode = mode]

\* DAG::node_index: HashMap::get(id).copied()
node_index(d, id) ==
    IF id \in DOMAIN d.id_to_index THEN d.id_to_index[id] ELSE NoIdx

\* HashMap::insert
MapInsert(m, k, v) == [x \in (DOMAIN m) \cup {k} |-> IF x = k THEN v ELSE m[x]]

\* DAG::is_auto_created
is_auto_created(d, id) == id \in d.auto_created

RECURSIVE CountDigitsLoop(_, _)
CountDigitsLoop(n, count) ==
    IF n > 0 THEN CountDigitsLoop(n \div 10, count + 1) ELSE count

\* DAG::count_digits
count_digits(n) == IF n = 0 THEN 1 ELSE CountDigitsLoop(n, 0)

DigitChar(k) == <<"0", "1", "2", "3", "4", "5", "6", "7", "8", "9">>[k + 1]

\* The digit buffer of write_usize: least significant digit first.
RECURSIVE DigitsLoop(_, _)
DigitsLoop(n, digits) ==
    IF n > 0 THEN DigitsLoop(n \div 10, Append(digits, DigitChar(n % 10))) ELSE digits

Reverse(s) == [i \in 1..Len(s) |-> s[Len(s) + 1 - i]]

\* DAG::write_usize: the characters pushed to the buffer
write_usize(n) == IF n = 0 THEN <<"0">> ELSE Reverse(DigitsLoop(n, << >>))

\* DAG::compute_node_width
compute_node_width(d, id, label) ==
    IF label = << >> \/ is_auto_created(d, id)
    THEN 2 + count_digits(id)
    ELSE 2 + Len(label)

\* DAG::write_node: the characters pushed to the buffer
write_node(d, id, label) ==
    IF label = << >> \/ is_auto_created(d, id)
    THEN <<LANGLE>> \o write_usize(id) \o <<RANGLE>>
    ELSE <<LBRACKET>> \o label \o <<RBRACKET>>

\* The "brand new node" branch shared by add_node and ensure_node_exists:
\* push the node, map the id, push the width, extend the adjacency lists.
PushNode(d, id, label, auto) ==
    LET d1 == [d EXCEPT !.nodes = Append(@, <<id, label>>),
                        !.auto_created = IF auto THEN @ \cup {id} ELSE @,
                        !.id_to_index = MapInsert(@, id, Len(d.nodes) + 1)]
    IN  [d1 EXCEPT !.node_widths = Append(@, compute_node_width(d1, id, label)),
                   !.children = Append(@, << >>),
                   !.parents = Append(@, << >>)]

\* The promotion branch without auto_created.remove
PromoteNodeKeepFlag(d, id, label) ==
    LET idx == d.id_to_index[id]
        d1 == [d EXCEPT !.nodes = SetAt(@, idx, <<id, label>>)]
    IN  [d1 EXCEPT !.node_widths = SetAt(@, idx, compute_node_width(d1, id, label))]

\* The promotion branch without the update of the cached width
PromoteNodeStaleWidth(d, id, label) ==
    LET idx == d.id_to_index[id]
    IN  [d EXCEPT !.nodes = SetAt(@, idx, <<id, label>>),
                  !.auto_created = @ \ {id}]


\* add_node, the promotion branch as written: the flag is cleared.
PromoteNode(d, id, label) ==
    LET idx == d.id_to_index[id]
        d1 == [d EXCEPT !.nodes = SetAt(@, idx, <<id, label>>),
                        !.auto_created = @ \ {id}]
    IN  [d1 EXCEPT !.node_widths = SetAt(@, idx, compute_node_width(d1, id, label))]

\* add_node without the lookup: the id is pushed again when it is already known.
add_node_push(d, id, label) == PushNode(d, id, label, FALSE)

\* DAG::add_node
add_node(d, id, label) ==
    IF id \in DOMAIN d.id_to_index
    THEN PromoteNode(d, id, label)
    ELSE PushNode(d, id, label, FALSE)

\* ensure_node_exists that creates the placeholder without flagging it
ensure_node_exists_unflagged(d, id) ==
    IF id \notin DOMAIN d.id_to_index
    THEN PushNode(d, id, << >>, FALSE)
    ELSE d

\* DAG::ensure_node_exists
ensure_node_exists(d, id) ==
    IF id \notin DOMAIN d.id_to_index
    THEN PushNode(d, id, << >>, TRUE)
    ELSE d

\* add_edge that leaves the adjacency lists alone when the edge is already cached
add_edge_dedup(d, from, to) ==
    LET d1 == ensure_node_exists(d, from)
        d2 == ensure_node_exists(d1, to)
        d3 == [d2 EXCEPT !.edges = Append(@, <<from, to>>)]
        from_idx == node_index(d3, from)
        to_idx == node_index(d3, to)
    IN  IF from_idx /= NoIdx /\ to_idx /= NoIdx /\ ~Contains(d3.children[from_idx], to_idx)
        THEN LET d4 == [d3 EXCEPT !.children[from_idx] = Append(@, to_idx)]
             IN  [d4 EXCEPT !.parents[to_idx] = Append(@, from_idx)]
        ELSE d3


\* DAG::add_edge
add_edge(d, from, to) ==
    LET d1 == ensure_node_exists(d, from)
        d2 == ensure_node_exists(d1, to)
        d3 == [d2 EXCEPT !.edges = Append(@, <<from, to>>)]
        from_idx == node_index(d3, from)
        to_idx == node_index(d3, to)
    IN  IF from_idx /= NoIdx /\ to_idx /= NoIdx
        THEN LET d4 == [d3 EXCEPT !.children[from_idx] = Append(@, to_idx)]
             IN  [d4 EXCEPT !.parents[to_idx] = Append(@, from_idx)]
        ELSE d3

\* from_edges, first loop: id_to_index and the width cache, one entry per listed node
RECURSIVE FromEdgesIndex(_, _)
FromEdgesIndex(d, idx) ==
    IF idx > Len(d.nodes) THEN d
    ELSE LET id == d.nodes[idx][1]
             label == d.nodes[idx][2]
             d1 == [d EXCEPT !.id_to_index = MapInsert(@, id, idx)]
         IN  FromEdgesIndex(
                 [d1 EXCEPT !.node_widths = Append(@, compute_node_width(d1, id, label))],
                 idx + 1)

\* from_edges, last loop: add_edge for each listed edge
RECURSIVE AddEdges(_, _)
AddEdges(d, el) ==
    IF el = << >> THEN d
    ELSE AddEdges(add_edge(d, Head(el)[1], Head(el)[2]), Tail(el))

\* DAG::from_edges
from_edges(nl, el) ==
    LET d0 == [new EXCEPT !.nodes = nl]
        d1 == FromEdgesIndex(d0, 1)
        d2 == [d1 EXCEPT !.children = [i \in 1..Len(nl) |-> << >>],
                         !.parents = [i \in 1..Len(nl) |-> << >>]]
    IN  AddEdges(d2, el)

\* DAG::set_render_mode
set_render_mode(d, mode) == [d EXCEPT !.render_mode = mode]

\* DAG::get_children: child ids through the cached adjacency list
get_children(d, node_id) ==
    LET idx == node_index(d, node_id)
    IN  IF idx /= NoIdx
        THEN [k \in 1..Len(d.children[idx]) |-> d.nodes[d.children[idx][k]][1]]
        ELSE << >>

\* DAG::get_parents
get_parents(d, node_id) ==
    LET idx == node_index(d, node_id)
    IN  IF idx /= NoIdx
        THEN [k \in 1..Len(d.parents[idx]) |-> d.nodes[d.parents[idx][k]][1]]
        ELSE << >>

\* DAG::get_node_width: node_widths.get(idx).copied().unwrap_or(0)
get_node_width(d, idx) ==
    IF idx \in DOMAIN d.node_widths THEN d.node_widths[idx] ELSE 0

----------------------------------------------------------------------------
(* Cycle detector, src/src/cycles.rs *)

RECURSIVE has_cycle_util(_, _, _, _)
RECURSIVE HasCycleEdges(_, _, _, _, _)

\* The loop of has_cycle_util without rec_stack[idx] = false at its end
RECURSIVE HasCycleEdgesNoReset(_, _, _, _, _)
HasCycleEdgesNoReset(d, idx, e, visited, rec_stack) ==
    IF e > Len(d.edges)
    THEN [r |-> FALSE, visited |-> visited, rec_stack |-> rec_stack]
    ELSE LET from == d.edges[e][1]
             to == d.edges[e][2]
             child_idx == node_index(d, to)
         IN  IF from = d.nodes[idx][1] /\ child_idx /= NoIdx
             THEN LET sub == has_cycle_util(d, child_idx, visited, rec_stack)
                  IN  IF sub.r THEN sub
                      ELSE HasCycleEdgesNoReset(d, idx, e + 1, sub.visited, sub.rec_stack)
             ELSE HasCycleEdgesNoReset(d, idx, e + 1, visited, rec_stack)

\* has_cycle_util, the loop over self.edges from edge e on. The result is
\* [r |-> the return value if the loop returned true, visited, rec_stack].
HasCycleEdges(d, idx, e, visited, rec_stack) ==
    IF e > Len(d.edges)
    THEN [r |-> FALSE, visited |-> visited, rec_stack |-> SetAt(rec_stack, idx, FALSE)]
    ELSE LET from == d.edges[e][1]
             to == d.edges[e][2]
             child_idx == node_index(d, to)
         IN  IF from = d.nodes[idx][1] /\ child_idx /= NoIdx
             THEN LET sub == has_cycle_util(d, child_idx, visited, rec_stack)
                  IN  IF sub.r THEN sub
                      ELSE HasCycleEdges(d, idx, e + 1, sub.visited, sub.rec_stack)
             ELSE HasCycleEdges(d, idx, e + 1, visited, rec_stack)

\* DAG::has_cycle_util
has_cycle_util(d, idx, visited, rec_stack) ==
    IF rec_stack[idx]
    THEN [r |-> TRUE, visited |-> visited, rec_stack |-> rec_stack]
    ELSE IF visited[idx]
    THEN [r |-> FALSE, visited |-> visited, rec_stack |-> rec_stack]
    ELSE HasCycleEdges(d, idx, 1, SetAt(visited, idx, TRUE), SetAt(rec_stack, idx, TRUE))

RECURSIVE HasCycleFrom(_, _, _, _)
HasCycleFrom(d, i, visited, rec_stack) ==
    IF i > Len(d.nodes) THEN FALSE
    ELSE LET sub == has_cycle_util(d, i, visited, rec_stack)
         IN  IF sub.r THEN TRUE
             ELSE HasCycleFrom(d, i + 1, sub.visited, sub.rec_stack)

\* has_cycle that starts the search at the first node only
has_cycle_first_start(d) ==
    IF d.nodes = << >> THEN FALSE
    ELSE has_cycle_util(d, 1, [i \in 1..Len(d.nodes) |-> FALSE],
                        [i \in 1..Len(d.nodes) |-> FALSE]).r

\* DAG::has_cycle
has_cycle(d) ==
    HasCycleFrom(d, 1, [i \in 1..Len(d.nodes) |-> FALSE], [i \in 1..Len(d.nodes) |-> FALSE])

\* Option<Vec<usize>>: None is the value NoPath, Some(p) is [some |-> TRUE, path |-> p].
NoPath == [some |-> FALSE, path |-> << >>]

SomePath(p) == [some |-> TRUE, path |-> p]

RECURSIVE find_cycle_from(_, _, _, _)
RECURSIVE FindCycleEdges(_, _, _, _, _)

\* find_cycle_from, the loop over self.edges from edge e on. The result is
\* [found |-> Option of the cycle, visited, path].
FindCycleEdges(d, start_idx, e, visited, path) ==
    IF e > Len(d.edges)
    THEN [found |-> NoPath, visited |-> visited, path |-> SubSeq(path, 1, Len(path) - 1)]
    ELSE LET from == d.edges[e][1]
             to == d.edges[e][2]
             child_idx == node_index(d, to)
         IN  IF from = d.nodes[start_idx][1] /\ child_idx /= NoIdx
             THEN LET sub == find_cycle_from(d, child_idx, visited, path)
                  IN  IF sub.found.some THEN sub
                      ELSE FindCycleEdges(d, start_idx, e + 1, sub.visited, sub.path)
             ELSE FindCycleEdges(d, start_idx, e + 1, visited, path)

\* find_cycle_from that returns the whole path instead of its part from cycle_start
find_cycle_from_whole_path(d, start_idx, visited, path) ==
    IF visited[start_idx]
    THEN IF FirstIndex({pos_ \in DOMAIN path : path[pos_] = start_idx}) /= NoIdx
         THEN [found |-> SomePath([k \in 1..Len(path) |-> d.nodes[path[k]][1]]),
               visited |-> visited, path |-> path]
         ELSE [found |-> NoPath, visited |-> visited, path |-> path]
    ELSE FindCycleEdges(d, start_idx, 1, SetAt(visited, start_idx, TRUE),
                        Append(path, start_idx))


\* DAG::find_cycle_from
find_cycle_from(d, start_idx, visited, path) ==
    IF visited[start_idx]
    THEN LET cycle_start == FirstIndex({pos_ \in DOMAIN path : path[pos_] = start_idx})
         IN  IF cycle_start /= NoIdx
             THEN [found |-> SomePath([k \in 1..(Len(path) - cycle_start + 1) |->
                                          d.nodes[path[cycle_start + k - 1]][1]]),
                   visited |-> visited, path |-> path]
             ELSE [found |-> NoPath, visited |-> visited, path |-> path]
    ELSE FindCycleEdges(d, start_idx, 1, SetAt(visited, start_idx, TRUE),
                        Append(path, start_idx))

RECURSIVE FindCyclePathFrom(_, _)
FindCyclePathFrom(d, i) ==
    IF i > Len(d.nodes) THEN NoPath
    ELSE LET sub == find_cycle_from(d, i, [k \in 1..Len(d.nodes) |-> FALSE], << >>)
         IN  IF sub.found.some THEN sub.found ELSE FindCyclePathFrom(d, i + 1)

\* find_cycle_path that searches from the first node only
find_cycle_path_first_start(d) ==
    IF d.nodes = << >> THEN NoPath
    ELSE find_cycle_from(d, 1, [k \in 1..Len(d.nodes) |-> FALSE], << >>).found


\* DAG::find_cycle_path
find_cycle_path(d) == FindCyclePathFrom(d, 1)

----------------------------------------------------------------------------
(* Layout, src/src/layout.rs *)

Min(S) == CHOOSE x \in S : \A y \in S : x <= y

Max(S) == CHOOSE x \in S : \A y \in S : x >= y

\* slice::sort_by / sort_by_key (stable) of a sequence of pairs by the component
\* at position k: an element is inserted after the elements whose key is not larger.
RECURSIVE StableSortBy(_, _)
StableSortBy(s, k) ==
    IF s = << >> THEN << >>
    ELSE LET sorted == StableSortBy(SubSeq(s, 1, Len(s) - 1), k)
             x == s[Len(s)]
             n == Cardinality({i \in DOMAIN sorted : sorted[i][k] <= x[k]})
         IN  SubSeq(sorted, 1, n) \o <<x>> \o SubSeq(sorted, n + 1, Len(sorted))

\* slice::sort_unstable of integers
RECURSIVE SortInts(_)
SortInts(s) ==
    IF s = << >> THEN << >>
    ELSE LET sorted == SortInts(SubSeq(s, 1, Len(s) - 1))
             x == s[Len(s)]
             n == Cardinality({i \in DOMAIN sorted : sorted[i] <= x})
         IN  SubSeq(sorted, 1, n) \o <<x>> \o SubSeq(sorted, n + 1, Len(sorted))

\* The scan of the edges that sets a level only while it is still 0
RECURSIVE LevelsPassFirstSeen(_, _, _, _, _)
LevelsPassFirstSeen(d, scope, e, levels, changed) ==
    IF e > Len(d.edges) THEN [levels |-> levels, changed |-> changed]
    ELSE LET from == d.edges[e][1]
             to == d.edges[e][2]
             from_idx == node_index(d, from)
             to_idx == node_index(d, to)
         IN  IF from \in scope /\ to \in scope /\ from_idx /= NoIdx /\ to_idx /= NoIdx
                /\ levels[to_idx] = 0
             THEN LevelsPassFirstSeen(d, scope, e + 1, SetAt(levels, to_idx, levels[from_idx] + 1), TRUE)
             ELSE LevelsPassFirstSeen(d, scope, e + 1, levels, changed)

\* One scan of self.edges in calculate_levels, from edge e on; in_scope(from, to)
\* is the subgraph filter of calculate_levels_for_subgraph.
RECURSIVE LevelsPass(_, _, _, _, _)
LevelsPass(d, scope, e, levels, changed) ==
    IF e > Len(d.edges) THEN [levels |-> levels, changed |-> changed]
    ELSE LET from == d.edges[e][1]
             to == d.edges[e][2]
             from_idx == node_index(d, from)
             to_idx == node_index(d, to)
         IN  IF from \in scope /\ to \in scope /\ from_idx /= NoIdx /\ to_idx /= NoIdx
                /\ levels[from_idx] + 1 > levels[to_idx]
             THEN LevelsPass(d, scope, e + 1, SetAt(levels, to_idx, levels[from_idx] + 1), TRUE)
             ELSE LevelsPass(d, scope, e + 1, levels, changed)

\* A level of Len(nodes) or more is the length of a walk that repeats a node: the
\* graph has a cycle, every later pass changes a level again, and the while loop
\* of the source never leaves (until the addition overflows).
PassLimit(d) == Len(d.nodes) + 1

\* A single scan of the edges instead of the loop to the fixed point
LevelsSinglePass(d, scope, levels, pass) ==
    [diverged |-> FALSE, levels |-> LevelsPass(d, scope, 1, levels, FALSE).levels]

\* while changed { ... }: the result is [diverged, levels].
RECURSIVE LevelsLoop(_, _, _, _)
LevelsLoop(d, scope, levels, pass) ==
    IF pass > PassLimit(d) THEN [diverged |-> TRUE, levels |-> levels]
    ELSE LET r == LevelsPass(d, scope, 1, levels, FALSE)
         IN  IF r.changed THEN LevelsLoop(d, scope, r.levels, pass + 1)
             ELSE [diverged |-> FALSE, levels |-> r.levels]

\* Every id: the scope of the full-graph level assignment (no filter).
AllIds(d) == {d.nodes[i][1] : i \in DOMAIN d.nodes} \cup
             {d.edges[e][1] : e \in DOMAIN d.edges} \cup {d.edges[e][2] : e \in DOMAIN d.edges}

\* DAG::calculate_levels: [diverged, level_data], level_data the pairs <<idx, level>>
calculate_levels(d) ==
    LET r == LevelsLoop(d, AllIds(d), [i \in 1..Len(d.nodes) |-> 0], 1)
    IN  [diverged |-> r.diverged,
         level_data |-> [i \in 1..Len(d.nodes) |-> <<i, r.levels[i]>>]]

\* DAG::calculate_levels_for_subgraph
calculate_levels_for_subgraph(d, subgraph_indices) ==
    LET subgraph_node_ids == {d.nodes[subgraph_indices[k]][1] : k \in DOMAIN subgraph_indices}
        r == LevelsLoop(d, subgraph_node_ids, [i \in 1..Len(d.nodes) |-> 0], 1)
    IN  [diverged |-> r.diverged,
         level_data |-> [k \in 1..Len(subgraph_indices) |->
                            <<subgraph_indices[k], r.levels[subgraph_indices[k]]>>]]

\* The median key of order_by_median_parents / order_by_median_children for the
\* node at 0-based position pos, doubled so that it stays an integer:
\* positions are the 0-based positions of the neighbours found in the other level.
MedianKey2(d, pos, neighbours, other_level) ==
    LET found == [k \in 1..Len(neighbours) |->
                     FirstIndex({pos_ \in DOMAIN other_level : d.nodes[other_level[pos_]][1] = neighbours[k]})]
        present == SelectSeq(found, LAMBDA p : p /= NoIdx)
        positions == SortInts([k \in 1..Len(present) |-> present[k] - 1])
        n == Len(positions)
    IN  IF n = 0 THEN 2 * pos
        ELSE IF n % 2 = 1 THEN 2 * positions[(n \div 2) + 1]
        ELSE positions[n \div 2] + positions[(n \div 2) + 1]

\* DAG::order_by_median_parents
order_by_median_parents(d, level_nodes, parent_level) ==
    LET node_medians == [k \in 1..Len(level_nodes) |->
            <<level_nodes[k],
              MedianKey2(d, k - 1, get_parents(d, d.nodes[level_nodes[k]][1]), parent_level)>>]
        sorted == StableSortBy(node_medians, 2)
    IN  [k \in 1..Len(sorted) |-> sorted[k][1]]

\* DAG::order_by_median_children
order_by_median_children(d, level_nodes, child_level) ==
    LET node_medians == [k \in 1..Len(level_nodes) |->
            <<level_nodes[k],
              MedianKey2(d, k - 1, get_children(d, d.nodes[level_nodes[k]][1]), child_level)>>]
        sorted == StableSortBy(node_medians, 2)
    IN  [k \in 1..Len(sorted) |-> sorted[k][1]]

\* reduce_crossings, top-down pass: levels 1..=max_level of the source are the
\* entries 2..max_level+1 here.
RECURSIVE TopDownPass(_, _, _)
TopDownPass(d, levels, level_idx) ==
    IF level_idx > Len(levels) THEN levels
    ELSE TopDownPass(d,
             SetAt(levels, level_idx,
                   order_by_median_parents(d, levels[level_idx], levels[level_idx - 1])),
             level_idx + 1)

\* reduce_crossings, bottom-up pass: (0..max_level).rev()
RECURSIVE BottomUpPass(_, _, _)
BottomUpPass(d, levels, level_idx) ==
    IF level_idx < 1 THEN levels
    ELSE BottomUpPass(d,
             SetAt(levels, level_idx,
                   order_by_median_children(d, levels[level_idx], levels[level_idx + 1])),
             level_idx - 1)

CrossingIterations == 4

RECURSIVE ReduceLoop(_, _, _)
ReduceLoop(d, levels, iter) ==
    IF iter > CrossingIterations THEN levels
    ELSE ReduceLoop(d, BottomUpPass(d, TopDownPass(d, levels, 2), Len(levels) - 1), iter + 1)

\* DAG::reduce_crossings
reduce_crossings(d, levels) == ReduceLoop(d, levels, 1)

NodeGap == 3

\* compact_level, the loop over the sorted pairs from entry k on, x the running offset
RECURSIVE CompactLoop(_, _, _, _, _)
CompactLoop(d, sorted, k, x, x_coords) ==
    IF k > Len(sorted) THEN x_coords
    ELSE LET idx == sorted[k][2]
         IN  CompactLoop(d, sorted, k + 1, x + get_node_width(d, idx) + NodeGap,
                         SetAt(x_coords, idx, x))

\* compact_level that packs by x but leaves the order of level_nodes as it was
compact_level_keep_order(d, x_coords, level_nodes) ==
    IF level_nodes = << >> THEN [x_coords |-> x_coords, level_nodes |-> level_nodes]
    ELSE LET pairs == [k \in 1..Len(level_nodes) |-> <<x_coords[level_nodes[k]], level_nodes[k]>>]
             sorted == StableSortBy(pairs, 1)
         IN  [x_coords |-> CompactLoop(d, sorted, 1, 0, x_coords),
              level_nodes |-> level_nodes]

\* DAG::compact_level: [x_coords, level_nodes]
compact_level(d, x_coords, level_nodes) ==
    IF level_nodes = << >> THEN [x_coords |-> x_coords, level_nodes |-> level_nodes]
    ELSE LET pairs == [k \in 1..Len(level_nodes) |-> <<x_coords[level_nodes[k]], level_nodes[k]>>]
             sorted == StableSortBy(pairs, 1)
         IN  [x_coords |-> CompactLoop(d, sorted, 1, 0, x_coords),
              level_nodes |-> [k \in 1..Len(sorted) |-> sorted[k][2]]]

\* assign_x_coordinates, initial packing of one level from entry k on
RECURSIVE PackLevel(_, _, _, _, _)
PackLevel(d, level_nodes, k, x, x_coords) ==
    IF k > Len(level_nodes) THEN x_coords
    ELSE PackLevel(d, level_nodes, k + 1, x + get_node_width(d, level_nodes[k]) + NodeGap,
                   SetAt(x_coords, level_nodes[k], x))

RECURSIVE PackLevels(_, _, _, _)
PackLevels(d, levels, l, x_coords) ==
    IF l > Len(levels) THEN x_coords
    ELSE PackLevels(d, levels, l + 1, PackLevel(d, levels[l], 1, 0, x_coords))

\* assign_x_coordinates, the pull of one node toward the median center of its parents
CenterUnderParents(d, x_coords, idx) ==
    LET parents_ == get_parents(d, d.nodes[idx][1])
        p_idxs == SelectSeq([k \in 1..Len(parents_) |-> node_index(d, parents_[k])],
                            LAMBDA p : p /= NoIdx)
        parent_centers == SortInts([k \in 1..Len(p_idxs) |->
                              x_coords[p_idxs[k]] + (get_node_width(d, p_idxs[k]) \div 2)])
    IN  IF parent_centers = << >> THEN x_coords
        ELSE LET median == parent_centers[(Len(parent_centers) \div 2) + 1]
                 half == get_node_width(d, idx) \div 2
                 target == IF median >= half THEN median - half ELSE 0
             IN  SetAt(x_coords, idx, (x_coords[idx] + target) \div 2)

RECURSIVE CenterLevel(_, _, _, _)
CenterLevel(d, level_nodes, k, x_coords) ==
    IF k > Len(level_nodes) THEN x_coords
    ELSE CenterLevel(d, level_nodes, k + 1, CenterUnderParents(d, x_coords, level_nodes[k]))

\* The sweep that centers the nodes of each level and does not re-compact it
RECURSIVE RefineSweepNoCompact(_, _, _)
RefineSweepNoCompact(d, st, level_idx) ==
    IF level_idx > Len(st.levels) THEN st
    ELSE RefineSweepNoCompact(d, [x_coords |-> CenterLevel(d, st.levels[level_idx], 1, st.x_coords),
                                  levels |-> st.levels],
                              level_idx + 1)


\* assign_x_coordinates, one top-down sweep over the levels 1..=max_level
\* (entries 2.. here): center, then re-compact. st is [x_coords, levels].
RECURSIVE RefineSweep(_, _, _)
RefineSweep(d, st, level_idx) ==
    IF level_idx > Len(st.levels) THEN st
    ELSE LET x1 == CenterLevel(d, st.levels[level_idx], 1, st.x_coords)
             c == compact_level(d, x1, st.levels[level_idx])
         IN  RefineSweep(d, [x_coords |-> c.x_coords,
                             levels |-> SetAt(st.levels, level_idx, c.level_nodes)],
                         level_idx + 1)

RefineIterations == 2

RECURSIVE RefineLoop(_, _, _)
RefineLoop(d, st, iter) ==
    IF iter > RefineIterations THEN st
    ELSE RefineLoop(d, RefineSweep(d, st, 2), iter + 1)

\* DAG::assign_x_coordinates: [x_coords, levels]
assign_x_coordinates(d, levels) ==
    RefineLoop(d, [x_coords |-> PackLevels(d, levels, 1, [i \in 1..Len(d.nodes) |-> 0]),
                   levels |-> levels], 1)

\* Iterator::max_by_key: the last of the elements with the largest key
MaxByX(level_nodes, x_coords) ==
    level_nodes[Max({k \in DOMAIN level_nodes :
                        \A j \in DOMAIN level_nodes : x_coords[level_nodes[j]] <= x_coords[level_nodes[k]]})]

LevelMinX(level_nodes, x_coords) ==
    IF level_nodes = << >> THEN 0 ELSE Min({x_coords[level_nodes[k]] : k \in DOMAIN level_nodes})

\* calculate_canvas_dimensions, the width of one level
LevelWidth(d, level_nodes, x_coords) ==
    IF level_nodes = << >> THEN 0
    ELSE LET max_node_idx == MaxByX(level_nodes, x_coords)
         IN  (x_coords[max_node_idx] - LevelMinX(level_nodes, x_coords))
             + get_node_width(d, max_node_idx)

\* DAG::calculate_canvas_dimensions: [level_widths, max_width]
calculate_canvas_dimensions(d, levels, x_coords) ==
    LET level_widths == [l \in 1..Len(levels) |-> LevelWidth(d, levels[l], x_coords)]
    IN  [level_widths |-> level_widths,
         max_width |-> Max({0} \cup {level_widths[l] : l \in DOMAIN level_widths})]

RECURSIVE Flatten(_)
Flatten(ss) == IF ss = << >> THEN << >> ELSE Head(ss) \o Flatten(Tail(ss))

RECURSIVE collect_connected(_, _, _, _)
RECURSIVE CollectEdges(_, _, _, _)

\* collect_connected, the loop over self.edges: the node indices it recurses
\* into, in edge order (the child of an edge that leaves the node, then the
\* parent of an edge that enters it)
ConnectedCalls(d, start_idx) ==
    LET node_id == d.nodes[start_idx][1]
    IN  Flatten([e \in 1..Len(d.edges) |->
            (IF d.edges[e][1] = node_id /\ node_index(d, d.edges[e][2]) /= NoIdx
             THEN <<node_index(d, d.edges[e][2])>> ELSE << >>) \o
            (IF d.edges[e][2] = node_id /\ node_index(d, d.edges[e][1]) /= NoIdx
             THEN <<node_index(d, d.edges[e][1])>> ELSE << >>)])

\* collect_connected, the recursive calls of the loop in order, each on the
\* visited and subgraph the calls before it left
CollectEdges(d, calls, visited, subgraph) ==
    IF calls = << >> THEN [visited |-> visited, subgraph |-> subgraph]
    ELSE LET s == collect_connected(d, Head(calls), visited, subgraph)
         IN  CollectEdges(d, Tail(calls), s.visited, s.subgraph)

\* DAG::collect_connected
collect_connected(d, start_idx, visited, subgraph) ==
    IF visited[start_idx] THEN [visited |-> visited, subgraph |-> subgraph]
    ELSE CollectEdges(d, ConnectedCalls(d, start_idx), SetAt(visited, start_idx, TRUE),
                      Append(subgraph, start_idx))

RECURSIVE FindSubgraphsFrom(_, _, _, _)
FindSubgraphsFrom(d, i, visited, subgraphs) ==
    IF i > Len(d.nodes) THEN subgraphs
    ELSE IF visited[i] THEN FindSubgraphsFrom(d, i + 1, visited, subgraphs)
    ELSE LET r == collect_connected(d, i, visited, << >>)
         IN  FindSubgraphsFrom(d, i + 1, r.visited, Append(subgraphs, r.subgraph))

\* DAG::find_subgraphs
find_subgraphs(d) == FindSubgraphsFrom(d, 1, [i \in 1..Len(d.nodes) |-> FALSE], << >>)

\* DAG::is_subgraph_simple_chain
is_subgraph_simple_chain(d, subgraph_indices) ==
    \A k \in DOMAIN subgraph_indices :
        LET node_id == d.nodes[subgraph_indices[k]][1]
        IN  ~(Len(get_parents(d, node_id)) > 1 \/ Len(get_children(d, node_id)) > 1)

----------------------------------------------------------------------------
(* Renderer, src/src/render/ascii.rs *)

\* Message literals of the source, one token each.
EMPTY_DAG == "Empty DAG"
CYCLE_HEADER == "!!  CYCLE DETECTED - Not a valid DAG"
CYCLE_CHAIN_TITLE == "Cyclic dependency chain:"
CYCLE_FOOTER == "This creates an infinite loop in error dependencies."
COMPLEX_CYCLE == "Complex cycle detected in graph."
NO_ROOT == "(no root)"

\* for i in lo..=hi { output.push(ch[i]) }; writeln!(output)
Line(lo, hi, ch) == [k \in 1..(hi - lo + 1) |-> ch[lo + k - 1]] \o <<NL>>

Spaces(n) == [k \in 1..n |-> SPACE]

\* The ascending sequence of the elements of a set of integers.
RECURSIVE SortedSeqOf(_)
SortedSeqOf(S) ==
    IF S = {} THEN << >> ELSE <<Min(S)>> \o SortedSeqOf(S \ {Min(S)})

\* Groups built with binary_search_by_key + insert: one group per distinct key
\* (component k of a connection), keys ascending, members in connection order.
GroupsBy(connections, k) ==
    LET keys == SortedSeqOf({connections[c][k] : c \in DOMAIN connections})
    IN  [g \in 1..Len(keys) |->
            <<keys[g], SelectSeq(connections, LAMBDA c : c[k] = keys[g])>>]

\* The node tuple found by self.nodes.iter().find(|(nid, _)| nid == id): its index
FindNode(d, id) == FirstIndex({pos_ \in DOMAIN d.nodes : d.nodes[pos_][1] = id})

\* write_node of the first node that carries the id, nothing if there is none
WriteFound(d, id) ==
    LET i == FindNode(d, id)
    IN  IF i = NoIdx THEN << >> ELSE write_node(d, d.nodes[i][1], d.nodes[i][2])

\* CycleChain that ends at the last node of the path
CycleChainOpen(d, cycle_nodes) ==
    Flatten([i \in 1..Len(cycle_nodes) |->
        IF FindNode(d, cycle_nodes[i]) = NoIdx THEN << >>
        ELSE WriteFound(d, cycle_nodes[i]) \o
             (IF i < Len(cycle_nodes) THEN <<SPACE, ARROW_RIGHT, SPACE>> ELSE << >>)])


\* render_cycle, the loop over cycle_nodes
CycleChain(d, cycle_nodes) ==
    Flatten([i \in 1..Len(cycle_nodes) |->
        IF FindNode(d, cycle_nodes[i]) = NoIdx THEN << >>
        ELSE WriteFound(d, cycle_nodes[i]) \o
             (IF i < Len(cycle_nodes) THEN <<SPACE, ARROW_RIGHT, SPACE>>
              ELSE IF FindNode(d, cycle_nodes[1]) = NoIdx THEN << >>
              ELSE <<SPACE, CYCLE_ARROW, SPACE>> \o WriteFound(d, cycle_nodes[1]))])

\* DAG::render_cycle
render_cycle(d) ==
    LET found == find_cycle_path(d)
    IN  <<CYCLE_HEADER, NL, NL>> \o
        (IF found.some
         THEN <<CYCLE_CHAIN_TITLE, NL>> \o CycleChain(d, found.path) \o
              <<NL, NL, CYCLE_FOOTER, NL>>
         ELSE <<COMPLEX_CYCLE, NL>>)

\* is_simple_chain without the check for disconnected subgraphs
is_simple_chain_no_subgraphs(d) ==
    IF d.nodes = << >> THEN FALSE
    ELSE \A i \in DOMAIN d.nodes :
            ~(Len(get_parents(d, d.nodes[i][1])) > 1 \/ Len(get_children(d, d.nodes[i][1])) > 1)

\* DAG::is_simple_chain
is_simple_chain(d) ==
    IF d.nodes = << >> THEN FALSE
    ELSE IF Len(find_subgraphs(d)) > 1 THEN FALSE
    ELSE \A i \in DOMAIN d.nodes :
            ~(Len(get_parents(d, d.nodes[i][1])) > 1 \/ Len(get_children(d, d.nodes[i][1])) > 1)

\* The loop of render_horizontal (and of the chain branch of render_subgraph):
\* visited holds the ids pushed before this iteration.
RECURSIVE ChainWalk(_, _, _)
ChainWalk(d, current_id, visited) ==
    LET children_ == get_children(d, current_id)
    IN  WriteFound(d, current_id) \o
        (IF children_ = << >> THEN << >>
         ELSE <<SPACE, ARROW_RIGHT, SPACE>> \o
              (IF Contains(Append(visited, current_id), children_[1]) THEN << >>
               ELSE ChainWalk(d, children_[1], Append(visited, current_id))))

\* render_horizontal that starts the walk at the last root
render_horizontal_last_root(d) ==
    LET roots == SelectSeq(d.nodes, LAMBDA n : get_parents(d, n[1]) = << >>)
    IN  IF roots = << >> THEN <<NO_ROOT>>
        ELSE ChainWalk(d, roots[Len(roots)][1], << >>) \o <<NL>>

\* DAG::render_horizontal
render_horizontal(d) ==
    LET roots == SelectSeq(d.nodes, LAMBDA n : get_parents(d, n[1]) = << >>)
    IN  IF roots = << >> THEN <<NO_ROOT>>
        ELSE ChainWalk(d, roots[1][1], << >>) \o <<NL>>

\* vec![Vec::new(); max_level + 1], then levels[level].push(idx) in level_data order
GroupByLevel(level_data) ==
    LET max_level == Max({0} \cup {level_data[k][2] : k \in DOMAIN level_data})
    IN  [l \in 1..(max_level + 1) |->
            LET members == SelectSeq(level_data, LAMBDA p : p[2] = l - 1)
            IN  [k \in 1..Len(members) |-> members[k][1]]]

\* draw_convergence_manhattan, line 2: the character at column i after the groups g..
RECURSIVE ConvergenceChar(_, _, _, _)
ConvergenceChar(target_groups, i, g, ch) ==
    IF g > Len(target_groups) THEN ch
    ELSE LET sources == target_groups[g][2]
             min_src == Min(Range(sources))
             max_src == Max(Range(sources))
         IN  ConvergenceChar(target_groups, i, g + 1,
                 IF Len(sources) <= 1 THEN ch
                 ELSE IF i = min_src THEN CORNER_DR
                 ELSE IF i = max_src THEN CORNER_DL
                 ELSE IF Contains(sources, i) THEN TEE_UP
                 ELSE IF i > min_src /\ i < max_src THEN H_LINE
                 ELSE ch)

\* DAG::draw_convergence_manhattan; target_groups: <<target, sources>>
draw_convergence_manhattan(target_groups, min_pos, max_pos) ==
    LET all_sources == UNION {Range(target_groups[g][2]) : g \in DOMAIN target_groups}
    IN  Line(min_pos, max_pos, [i \in min_pos..max_pos |-> IF i \in all_sources THEN V_LINE ELSE SPACE]) \o
        Line(min_pos, max_pos, [i \in min_pos..max_pos |-> ConvergenceChar(target_groups, i, 1, SPACE)]) \o
        Line(min_pos, max_pos,
             [i \in min_pos..max_pos |-> IF \E g \in DOMAIN target_groups : target_groups[g][1] = i
                        THEN ARROW_DOWN ELSE SPACE])

\* draw_divergence_manhattan, line 2
RECURSIVE DivergenceChar(_, _, _, _)
DivergenceChar(source_groups, i, g, ch) ==
    IF g > Len(source_groups) THEN ch
    ELSE LET targets == source_groups[g][2]
             min_tgt == Min(Range(targets))
             max_tgt == Max(Range(targets))
         IN  DivergenceChar(source_groups, i, g + 1,
                 IF Len(targets) <= 1 THEN ch
                 ELSE IF i = min_tgt THEN CORNER_UR
                 ELSE IF i = max_tgt THEN CORNER_UL
                 ELSE IF Contains(targets, i) THEN TEE_DOWN
                 ELSE IF i > min_tgt /\ i < max_tgt THEN H_LINE
                 ELSE ch)

\* DAG::draw_divergence_manhattan; source_groups: <<source, targets>>
draw_divergence_manhattan(source_groups, min_pos, max_pos) ==
    LET all_sources == {source_groups[g][1] : g \in DOMAIN source_groups}
        all_targets == UNION {Range(source_groups[g][2]) : g \in DOMAIN source_groups}
    IN  Line(min_pos, max_pos, [i \in min_pos..max_pos |-> IF i \in all_sources THEN V_LINE ELSE SPACE]) \o
        Line(min_pos, max_pos, [i \in min_pos..max_pos |-> DivergenceChar(source_groups, i, 1, SPACE)]) \o
        Line(min_pos, max_pos, [i \in min_pos..max_pos |-> IF i \in all_targets THEN ARROW_DOWN ELSE SPACE])

\* DAG::draw_simple_manhattan; connections: <<from, to>>
draw_simple_manhattan(connections, min_pos, max_pos) ==
    LET froms == {connections[c][1] : c \in DOMAIN connections}
    IN  Line(min_pos, max_pos, [i \in min_pos..max_pos |-> IF i \in froms THEN V_LINE ELSE SPACE]) \o
        Line(min_pos, max_pos, [i \in min_pos..max_pos |-> IF i \in froms THEN ARROW_DOWN ELSE SPACE])

\* The connections found between two levels: for each node of centers (pairs
\* <<idx, center>>) in order and each of its children in order, the pair of the
\* node and the first entry of next_centers that carries the child's id.
ConnectionsBetween(d, centers, next_centers) ==
    Flatten([c \in 1..Len(centers) |->
        LET children_ == get_children(d, d.nodes[centers[c][1]][1])
            hits == [k \in 1..Len(children_) |->
                        FirstIndex({pos_ \in DOMAIN next_centers : d.nodes[next_centers[pos_][1]][1] = children_[k]})]
            present == SelectSeq(hits, LAMBDA h : h /= NoIdx)
        IN  [k \in 1..Len(present) |-> <<centers[c][1], centers[c][2], next_centers[present[k]][2]>>]])

\* draw_connections_sugiyama, "Find connections": the triples <<curr_idx,
\* from_pos, to_pos>>, (from_pos, to_pos) being the connection pushed
SugiyamaConnections(d, current_nodes, next_nodes, x_coords, current_min_x, current_offset, next_offset) ==
    LET current_centers == [k \in 1..Len(current_nodes) |->
            <<current_nodes[k],
              x_coords[current_nodes[k]] - current_min_x + current_offset
                  + (get_node_width(d, current_nodes[k]) \div 2)>>]
        next_min_x == LevelMinX(next_nodes, x_coords)
        next_centers == [k \in 1..Len(next_nodes) |->
            <<next_nodes[k],
              x_coords[next_nodes[k]] - next_min_x + next_offset
                  + (get_node_width(d, next_nodes[k]) \div 2)>>]
    IN  ConnectionsBetween(d, current_centers, next_centers)

\* draw_connections_sugiyama, from the grouping on: the block drawn for the
\* connections found
DrawConnections(found) ==
    LET connections == [c \in 1..Len(found) |-> <<found[c][2], found[c][3]>>]
        tg == GroupsBy(connections, 2)
        target_groups == [g \in 1..Len(tg) |->
            <<tg[g][1], [m \in 1..Len(tg[g][2]) |-> tg[g][2][m][1]]>>]
        sg == GroupsBy(connections, 1)
        source_groups == [g \in 1..Len(sg) |->
            <<sg[g][1], [m \in 1..Len(sg[g][2]) |-> sg[g][2][m][2]]>>]
        has_convergence == \E g \in DOMAIN target_groups : Len(target_groups[g][2]) > 1
        has_divergence == \E g \in DOMAIN source_groups : Len(source_groups[g][2]) > 1
        min_pos == 0
        max_pos == Max({0} \cup {connections[c][1] : c \in DOMAIN connections}
                           \cup {connections[c][2] : c \in DOMAIN connections})
    IN  IF connections = << >> THEN << >>
        ELSE IF has_convergence /\ ~has_divergence
        THEN draw_convergence_manhattan(target_groups, min_pos, max_pos)
        ELSE IF has_divergence /\ ~has_convergence
        THEN draw_divergence_manhattan(source_groups, min_pos, max_pos)
        ELSE draw_simple_manhattan(connections, min_pos, max_pos)

\* DAG::draw_connections_sugiyama
draw_connections_sugiyama(d, current_nodes, next_nodes, x_coords, current_min_x, current_offset, next_offset) ==
    IF current_nodes = << >> \/ next_nodes = << >> THEN << >>
    ELSE DrawConnections(SugiyamaConnections(d, current_nodes, next_nodes, x_coords,
                                             current_min_x, current_offset, next_offset))

\* draw_multiple_convergences, line 2; target_groups: <<target_pos, connections>>,
\* a connection being <<from_idx, from_pos, to_pos>>
RECURSIVE MultiConvergenceChar(_, _, _, _)
MultiConvergenceChar(target_groups, i, g, char_at_pos) ==
    IF g > Len(target_groups) THEN char_at_pos
    ELSE LET conns == target_groups[g][2]
             sources == {conns[c][2] : c \in DOMAIN conns}
             min_source == Min(sources)
             max_source == Max(sources)
         IN  MultiConvergenceChar(target_groups, i, g + 1,
                 IF Len(conns) <= 1 THEN char_at_pos
                 ELSE IF i = min_source THEN CORNER_DR
                 ELSE IF i = max_source THEN CORNER_DL
                 ELSE IF i \in sources THEN TEE_UP
                 ELSE IF i > min_source /\ i < max_source /\ char_at_pos = SPACE THEN H_LINE
                 ELSE char_at_pos)

\* The connections of all groups, group after group
AllConnections(groups) == Flatten([g \in 1..Len(groups) |-> groups[g][2]])

\* .map(|(_, from, to)| from.min(to)).min().unwrap_or(0)
ConnMinPos(conns) ==
    IF conns = << >> THEN 0
    ELSE Min({IF conns[c][2] <= conns[c][3] THEN conns[c][2] ELSE conns[c][3] :
                 c \in DOMAIN conns})

\* .map(|(_, from, to)| from.max(to)).max().unwrap_or(0)
ConnMaxPos(conns) ==
    IF conns = << >> THEN 0
    ELSE Max({IF conns[c][2] >= conns[c][3] THEN conns[c][2] ELSE conns[c][3] :
                 c \in DOMAIN conns})

\* DAG::draw_multiple_convergences
draw_multiple_convergences(target_groups) ==
    LET all_connections == AllConnections(target_groups)
        min_pos == ConnMinPos(all_connections)
        max_pos == ConnMaxPos(all_connections)
    IN  Line(min_pos, max_pos,
             [i \in min_pos..max_pos |-> IF \E c \in DOMAIN all_connections : all_connections[c][2] = i
                        THEN V_LINE ELSE SPACE]) \o
        Line(min_pos, max_pos, [i \in min_pos..max_pos |-> MultiConvergenceChar(target_groups, i, 1, SPACE)]) \o
        Line(min_pos, max_pos,
             [i \in min_pos..max_pos |-> IF \E g \in DOMAIN target_groups : target_groups[g][1] = i
                        THEN ARROW_DOWN ELSE SPACE])

\* draw_multiple_divergences, line 2; source_groups: <<from_idx, connections>>
RECURSIVE MultiDivergenceChar(_, _, _, _)
MultiDivergenceChar(source_groups, i, g, char_at_pos) ==
    IF g > Len(source_groups) THEN char_at_pos
    ELSE LET conns == source_groups[g][2]
             targets == {conns[c][3] : c \in DOMAIN conns}
             min_target == Min(targets)
             max_target == Max(targets)
         IN  MultiDivergenceChar(source_groups, i, g + 1,
                 IF Len(conns) <= 1 THEN char_at_pos
                 ELSE IF i = min_target THEN CORNER_UR
                 ELSE IF i = max_target THEN CORNER_UL
                 ELSE IF i \in targets THEN TEE_DOWN
                 ELSE IF i > min_target /\ i < max_target /\ char_at_pos = SPACE THEN H_LINE
                 ELSE char_at_pos)

\* DAG::draw_multiple_divergences
draw_multiple_divergences(source_groups) ==
    LET all_connections == AllConnections(source_groups)
        min_pos == ConnMinPos(all_connections)
        max_pos == ConnMaxPos(all_connections)
    IN  Line(0, max_pos,
             [i \in 0..max_pos |-> IF i < min_pos THEN SPACE
                        ELSE IF \E c \in DOMAIN all_connections : all_connections[c][2] = i
                        THEN V_LINE ELSE SPACE]) \o
        Line(0, max_pos,
             [i \in 0..max_pos |-> IF i >= min_pos THEN MultiDivergenceChar(source_groups, i, 1, SPACE)
                        ELSE SPACE]) \o
        Line(0, max_pos,
             [i \in 0..max_pos |-> IF i < min_pos THEN SPACE
                        ELSE IF \E c \in DOMAIN all_connections : all_connections[c][3] = i
                        THEN ARROW_DOWN ELSE SPACE])

\* DAG::draw_simple_verticals
draw_simple_verticals(connections) ==
    LET max_pos == ConnMaxPos(connections)
        froms == {connections[c][2] : c \in DOMAIN connections}
    IN  Line(0, max_pos, [i \in 0..max_pos |-> IF i \in froms THEN V_LINE ELSE SPACE]) \o
        Line(0, max_pos, [i \in 0..max_pos |-> IF i \in froms THEN ARROW_DOWN ELSE SPACE])

\* draw_vertical_connections: <<idx, center>> of the nodes of a level laid out
\* left to right with a gap of 3
GapCenters(d, level_nodes) ==
    [k \in 1..Len(level_nodes) |->
        <<level_nodes[k],
          PackLevel(d, level_nodes, 1, 0, [i \in 1..Len(d.nodes) |-> 0])[level_nodes[k]]
              + (get_node_width(d, level_nodes[k]) \div 2)>>]

\* DAG::draw_vertical_connections
draw_vertical_connections(d, current_nodes, next_nodes) ==
    IF current_nodes = << >> \/ next_nodes = << >> THEN << >>
    ELSE
    LET connections == ConnectionsBetween(d, GapCenters(d, current_nodes),
                                          GapCenters(d, next_nodes))
        target_groups == GroupsBy(connections, 3)
        source_groups == GroupsBy(connections, 1)
        has_any_convergence == \E g \in DOMAIN target_groups : Len(target_groups[g][2]) > 1
        has_any_divergence == \E g \in DOMAIN source_groups : Len(source_groups[g][2]) > 1
    IN  IF connections = << >> THEN << >>
        ELSE IF has_any_convergence /\ ~has_any_divergence
        THEN draw_multiple_convergences(target_groups)
        ELSE IF has_any_divergence /\ ~has_any_convergence
        THEN draw_multiple_divergences(source_groups)
        ELSE draw_simple_verticals(connections)

\* render_subgraph, the vertical branch: one level and its connector block
SubgraphLevel(d, levels, current_level) ==
    LET node_indices == levels[current_level]
    IN  IF node_indices = << >> THEN << >>
        ELSE Flatten([pos \in 1..Len(node_indices) |->
                 write_node(d, d.nodes[node_indices[pos]][1], d.nodes[node_indices[pos]][2]) \o
                 (IF pos < Len(node_indices) THEN Spaces(3) ELSE << >>)]) \o <<NL>> \o
             (IF current_level < Len(levels)
              THEN draw_vertical_connections(d, node_indices, levels[current_level + 1])
              ELSE << >>)

\* render_subgraph, the horizontal branch: the chain from the first root
SubgraphChain(d, roots) ==
    IF roots = << >> THEN << >>
    ELSE ChainWalk(d, d.nodes[roots[1]][1], << >>) \o <<NL>>

\* render_subgraph, the vertical branch: the loop over the levels
SubgraphLevels(d, levels) ==
    Flatten([l \in 1..Len(levels) |-> SubgraphLevel(d, levels, l)])

\* render_subgraph after calculate_levels_for_subgraph returned lv
RenderSubgraphLevels(d, subgraph_indices, lv) ==
    IF lv.diverged THEN [diverged |-> TRUE, text |-> << >>]
    ELSE IF is_subgraph_simple_chain(d, subgraph_indices)
    THEN [diverged |-> FALSE,
          text |-> SubgraphChain(d, SelectSeq(subgraph_indices,
                       LAMBDA idx : get_parents(d, d.nodes[idx][1]) = << >>))]
    ELSE [diverged |-> FALSE, text |-> SubgraphLevels(d, GroupByLevel(lv.level_data))]

\* DAG::render_subgraph: [diverged, text]
render_subgraph(d, subgraph_indices) ==
    RenderSubgraphLevels(d, subgraph_indices,
                         calculate_levels_for_subgraph(d, subgraph_indices))

\* render_vertical, what PASS 4 reads: the levels and x-coordinates of PASS 2
\* and the canvas of PASS 3
LayoutCanvas(assigned, canvas) ==
    [diverged |-> FALSE, levels |-> assigned.levels, x_coords |-> assigned.x_coords,
     level_widths |-> canvas.level_widths, max_canvas_width |-> canvas.max_width]

\* render_vertical, PASS 3 on the result of PASS 2
LayoutAssigned(d, assigned) ==
    LayoutCanvas(assigned,
                 calculate_canvas_dimensions(d, assigned.levels, assigned.x_coords))

\* render_vertical, PASS 1 and PASS 2 on the levels calculate_levels returned
LayoutLevels(d, lv) ==
    IF lv.diverged
    THEN [diverged |-> TRUE, levels |-> << >>, x_coords |-> << >>,
          level_widths |-> << >>, max_canvas_width |-> 0]
    ELSE LayoutAssigned(d, assign_x_coordinates(d,
                               reduce_crossings(d, GroupByLevel(lv.level_data))))

\* PASS 1-3 of render_vertical for a single connected graph:
\* [diverged, levels, x_coords, level_widths, max_canvas_width]
VerticalLayout(d) == LayoutLevels(d, calculate_levels(d))

\* (max_canvas_width - level_width) / 2 or 0
CenterOffset(max_canvas_width, level_width) ==
    IF max_canvas_width > level_width THEN (max_canvas_width - level_width) \div 2 ELSE 0

\* render_vertical, PASS 4: the node line of a level from entry k on
RECURSIVE NodeLine(_, _, _, _, _, _, _)
NodeLine(d, level_nodes, x_coords, min_x, level_offset, k, current_col) ==
    IF k > Len(level_nodes) THEN <<NL>>
    ELSE LET idx == level_nodes[k]
             node_x == x_coords[idx] - min_x + level_offset
             pad == IF current_col < node_x THEN node_x - current_col ELSE 0
         IN  Spaces(pad) \o write_node(d, d.nodes[idx][1], d.nodes[idx][2]) \o
             NodeLine(d, level_nodes, x_coords, min_x, level_offset, k + 1,
                      current_col + pad + get_node_width(d, idx))

\* VerticalLevel that writes the node line and no connector block
VerticalLevelNodesOnly(d, lay, current_level) ==
    LET level_nodes == lay.levels[current_level]
    IN  IF level_nodes = << >> THEN << >>
        ELSE NodeLine(d, level_nodes, lay.x_coords, LevelMinX(level_nodes, lay.x_coords),
                      CenterOffset(lay.max_canvas_width, lay.level_widths[current_level]), 1, 0)

\* render_vertical, PASS 4: one level and its connector block
VerticalLevel(d, lay, current_level) ==
    LET level_nodes == lay.levels[current_level]
        level_offset == CenterOffset(lay.max_canvas_width, lay.level_widths[current_level])
        min_x == LevelMinX(level_nodes, lay.x_coords)
    IN  IF level_nodes = << >> THEN << >>
        ELSE NodeLine(d, level_nodes, lay.x_coords, min_x, level_offset, 1, 0) \o
             (IF current_level < Len(lay.levels)
              THEN draw_connections_sugiyama(d, level_nodes, lay.levels[current_level + 1],
                       lay.x_coords, min_x, level_offset,
                       CenterOffset(lay.max_canvas_width, lay.level_widths[current_level + 1]))
              ELSE << >>)

\* render_vertical, several subgraphs: the renderings of the subgraphs, an
\* empty line between two of them
JoinSubgraphs(parts) ==
    [diverged |-> \E i \in DOMAIN parts : parts[i].diverged,
     text |-> Flatten([i \in 1..Len(parts) |->
                  (IF i > 1 THEN <<NL>> ELSE << >>) \o parts[i].text])]

\* render_vertical, PASS 4: the loop over the levels
RenderLayout(d, lay) ==
    IF lay.diverged THEN [diverged |-> TRUE, text |-> << >>]
    ELSE [diverged |-> FALSE,
          text |-> Flatten([l \in 1..Len(lay.levels) |-> VerticalLevel(d, lay, l)])]

\* render_vertical after find_subgraphs returned subgraphs
RenderSubgraphs(d, subgraphs) ==
    IF Len(subgraphs) > 1
    THEN JoinSubgraphs([i \in 1..Len(subgraphs) |-> render_subgraph(d, subgraphs[i])])
    ELSE RenderLayout(d, VerticalLayout(d))

\* DAG::render_vertical: [diverged, text]
render_vertical(d) == RenderSubgraphs(d, find_subgraphs(d))

\* The mode render_to resolves self.render_mode to
ResolvedMode(d) ==
    IF d.render_mode = "Auto"
    THEN IF is_simple_chain(d) THEN "Horizontal" ELSE "Vertical"
    ELSE d.render_mode

\* What render_vertical wrote, appended to output
WriteVertical(output, v) == [diverged |-> v.diverged, text |-> output \o v.text]

\* render_to without the has_cycle gate in front of the layout pipeline
render_to_no_cycle_gate(d, output) ==
    IF d.nodes = << >> THEN [diverged |-> FALSE, text |-> output \o <<EMPTY_DAG>>]
    ELSE IF ResolvedMode(d) = "Horizontal"
    THEN [diverged |-> FALSE, text |-> output \o render_horizontal(d)]
    ELSE WriteVertical(output, render_vertical(d))

\* render_to that selects the mode before it looks for an empty graph
render_to_mode_first(d, output) ==
    IF d.render_mode = "Horizontal"
    THEN [diverged |-> FALSE, text |-> output \o render_horizontal(d)]
    ELSE IF d.nodes = << >> THEN [diverged |-> FALSE, text |-> output \o <<EMPTY_DAG>>]
    ELSE IF has_cycle(d) THEN [diverged |-> FALSE, text |-> output \o render_cycle(d)]
    ELSE IF ResolvedMode(d) = "Horizontal"
    THEN [diverged |-> FALSE, text |-> output \o render_horizontal(d)]
    ELSE WriteVertical(output, render_vertical(d))


\* DAG::render_to: [diverged, text], text being output followed by what is written
render_to(d, output) ==
    IF d.nodes = << >> THEN [diverged |-> FALSE, text |-> output \o <<EMPTY_DAG>>]
    ELSE IF has_cycle(d) THEN [diverged |-> FALSE, text |-> output \o render_cycle(d)]
    ELSE IF ResolvedMode(d) = "Horizontal"
    THEN [diverged |-> FALSE, text |-> output \o render_horizontal(d)]
    ELSE WriteVertical(output, render_vertical(d))

\* DAG::render
render(d) == render_to(d, << >>)

----------------------------------------------------------------------------
(* The program as a state machine: one DAG instance, the last call made on   *)
(* it (with what the call found before it acted) and the value it returned.  *)

SeqsUpTo(S, n) == UNION {[1..k -> S] : k \in 0..n}

NodeLists == SeqsUpTo(Ids \X Labels, MaxBatchNodes)

EdgeLists == SeqsUpTo(Ids \X Ids, MaxBatchEdges)

Unit == << >>

\* let dag = DAG::new();
InitNew ==
    /\ dag = new
    /\ call = [op |-> "new", args |-> << >>, pre |-> << >>]
    /\ ret = Unit

\* let dag = DAG::from_edges(nodes, edges);
InitFromEdges ==
    \E nl \in NodeLists, el \in EdgeLists :
        /\ dag = from_edges(nl, el)
        /\ call = [op |-> "from_edges", args |-> <<nl, el>>, pre |-> << >>]
        /\ ret = Unit

Init == InitNew \/ InitFromEdges

\* dag.add_node(id, label); pre: <<the id was known, it was auto-created, its index>>
AddNode ==
    \E id \in Ids, label \in Labels :
        /\ dag' = add_node(dag, id, label)
        /\ call' = [op |-> "add_node", args |-> <<id, label>>,
                    pre |-> <<id \in DOMAIN dag.id_to_index, is_auto_created(dag, id),
                              node_index(dag, id)>>]
        /\ ret' = Unit

\* dag.add_edge(from, to) with the ids drawn from ids while the graph has fewer
\* than max edges; pre: <<from was known, to was known>>
AddEdgeIn(ids, max) ==
    \E from \in ids, to \in ids :
        /\ Len(dag.edges) < max
        /\ dag' = add_edge(dag, from, to)
        /\ call' = [op |-> "add_edge", args |-> <<from, to>>,
                    pre |-> <<from \in DOMAIN dag.id_to_index, to \in DOMAIN dag.id_to_index>>]
        /\ ret' = Unit

AddEdge == AddEdgeIn(Ids, MaxEdges)

\* dag.set_render_mode(mode)
SetRenderMode ==
    \E mode \in RenderModes :
        /\ dag' = set_render_mode(dag, mode)
        /\ call' = [op |-> "set_render_mode", args |-> <<mode>>, pre |-> << >>]
        /\ ret' = Unit

\* let output = dag.render();
Render ==
    /\ call' = [op |-> "render", args |-> << >>, pre |-> << >>]
    /\ ret' = render(dag)
    /\ UNCHANGED dag

\* let cyclic = dag.has_cycle();
HasCycle ==
    /\ call' = [op |-> "has_cycle", args |-> << >>, pre |-> << >>]
    /\ ret' = has_cycle(dag)
    /\ UNCHANGED dag

\* let level_data = dag.calculate_levels();
CalculateLevels ==
    /\ call' = [op |-> "calculate_levels", args |-> << >>, pre |-> << >>]
    /\ ret' = calculate_levels(dag)
    /\ UNCHANGED dag

Next == AddNode \/ AddEdge \/ SetRenderMode \/ Render \/ HasCycle

\* Every graph the construction API builds over two ids.
Spec == Init /\ [][Next]_vars

\* Every graph grown from DAG::new() alone.
SpecNew == InitNew /\ [][Next]_vars


\* The arguments of from_edges: each node list without edges, and the diamond.
GraphInputs == {<<nl, << >>>> : nl \in GraphNodeLists} \cup {<<FourNodes, DiamondEdges>>}

\* let dag = DAG::from_edges(nodes, edges); for one of the inputs of GraphInputs
InitGraph ==
    \E in \in GraphInputs :
        /\ dag = from_edges(in[1], in[2])
        /\ call = [op |-> "from_edges", args |-> in, pre |-> << >>]
        /\ ret = Unit

GraphAddEdge == AddEdgeIn(GraphIds, MaxGraphEdges)

NextGraph == GraphAddEdge \/ SetRenderMode \/ Render \/ HasCycle \/ CalculateLevels

\* Every edge list over four ids, on nodes of different widths.
SpecGraph == InitGraph /\ [][NextGraph]_vars

\* let dag = DAG::from_edges(nodes, edges); on the three-level graphs
InitConverge ==
    \E pa \in [ConvergeSources -> ConvergeRoots], ta \in [ConvergeSources -> ConvergeTargets] :
        /\ {pa[s] : s \in ConvergeSources} = ConvergeRoots
        /\ {ta[s] : s \in ConvergeSources} = ConvergeTargets
        /\ dag = from_edges(ConvergeNodes, ConvergeEdges(pa, ta))
        /\ call = [op |-> "from_edges", args |-> <<ConvergeNodes, ConvergeEdges(pa, ta)>>,
                   pre |-> << >>]
        /\ ret = Unit

NextConverge == SetRenderMode \/ Render

\* The renderings of the three-level graphs in which edges converge.
SpecConverge == InitConverge /\ [][NextConverge]_vars


\* let cycle = dag.find_cycle_path();
FindCyclePath ==
    /\ call' = [op |-> "find_cycle_path", args |-> << >>, pre |-> << >>]
    /\ ret' = find_cycle_path(dag)
    /\ UNCHANGED dag

NextCycle == GraphAddEdge \/ FindCyclePath

\* The cycle search on every edge list over four ids.
SpecCycle == InitGraph /\ [][NextCycle]_vars

----------------------------------------------------------------------------
(* Generic utilities over caller-supplied ids: src/src/cycles/generic.rs,   *)
(* src/src/cycles/generic/roots.rs, src/src/layout/generic.rs,              *)
(* src/src/layout/generic/impact.rs, src/src/layout/generic/metrics.rs.     *)
(* The closure get_dependencies is the function deps: an id outside its     *)
(* domain has no dependencies (the arm `_ => vec![]`).                      *)

\* SpecGeneric: largest id the closures are enumerated over, and the longest
\* dependency list of an id.
MaxId == 3
MaxDeps == 2

GenericIds == 1..MaxId

\* get_dependencies(&id)
get_dependencies(deps, id) == IF id \in DOMAIN deps THEN deps[id] ELSE << >>

\* detect_cycle_fn: id_to_index.insert(id, idx) for each listed id
RECURSIVE IndexIds(_, _, _)
IndexIds(all_ids, idx, id_to_index) ==
    IF idx > Len(all_ids) THEN id_to_index
    ELSE IndexIds(all_ids, idx + 1, MapInsert(id_to_index, all_ids[idx], idx))

RECURSIVE has_cycle_util_fn(_, _, _, _, _, _)
RECURSIVE CycleDepsLoop(_, _, _, _, _, _, _)

\* has_cycle_util_fn, the loop over deps from entry k on. The result is
\* [found |-> Option of the path, visited, rec_stack].
CycleDepsLoop(idx, all_ids, deps, id_to_index, k, visited, rec_stack) ==
    IF k > Len(get_dependencies(deps, all_ids[idx]))
    THEN [found |-> NoPath, visited |-> visited, rec_stack |-> SetAt(rec_stack, idx, FALSE)]
    ELSE IF get_dependencies(deps, all_ids[idx])[k] \notin DOMAIN id_to_index
    THEN CycleDepsLoop(idx, all_ids, deps, id_to_index, k + 1, visited, rec_stack)
    ELSE LET sub == has_cycle_util_fn(id_to_index[get_dependencies(deps, all_ids[idx])[k]],
                                      all_ids, deps, id_to_index, visited, rec_stack)
         IN  IF sub.found.some
             THEN [found |-> SomePath(Append(sub.found.path, all_ids[idx])),
                   visited |-> sub.visited, rec_stack |-> sub.rec_stack]
             ELSE CycleDepsLoop(idx, all_ids, deps, id_to_index, k + 1,
                                sub.visited, sub.rec_stack)

\* has_cycle_util_fn
has_cycle_util_fn(idx, all_ids, deps, id_to_index, visited, rec_stack) ==
    IF rec_stack[idx]
    THEN [found |-> SomePath(<<all_ids[idx]>>), visited |-> visited, rec_stack |-> rec_stack]
    ELSE IF visited[idx]
    THEN [found |-> NoPath, visited |-> visited, rec_stack |-> rec_stack]
    ELSE CycleDepsLoop(idx, all_ids, deps, id_to_index, 1,
                       SetAt(visited, idx, TRUE), SetAt(rec_stack, idx, TRUE))

\* detect_cycle_fn, the loop over the start indices from i on
RECURSIVE DetectCycleFrom(_, _, _, _, _, _)
DetectCycleFrom(i, all_ids, deps, id_to_index, visited, rec_stack) ==
    IF i > Len(all_ids) THEN NoPath
    ELSE LET sub == has_cycle_util_fn(i, all_ids, deps, id_to_index, visited, rec_stack)
         IN  IF sub.found.some THEN sub.found
             ELSE DetectCycleFrom(i + 1, all_ids, deps, id_to_index, sub.visited, sub.rec_stack)

\* detect_cycle_fn: Option<Vec<Id>>
detect_cycle_fn(all_ids, deps) ==
    DetectCycleFrom(1, all_ids, deps, IndexIds(all_ids, 1, << >>),
                    [i \in 1..Len(all_ids) |-> FALSE], [i \in 1..Len(all_ids) |-> FALSE])

\* Result<Vec<Id>, Vec<Id>>
Ok(v) == [ok |-> TRUE, value |-> v]

Err(v) == [ok |-> FALSE, value |-> v]

\* topological_sort_fn: in_degree after the two initialisation loops
InDegrees(items, deps) ==
    [id \in Range(items) |->
        Cardinality({k \in DOMAIN items : items[k] = id}) * Len(get_dependencies(deps, id))]

\* topological_sort_fn, the loop over the candidates from entry c on, for the
\* item popped: [in_degree, queue]
RECURSIVE KahnCandidates(_, _, _, _, _, _)
KahnCandidates(items, deps, item, c, in_degree, queue) ==
    IF c > Len(items) THEN [in_degree |-> in_degree, queue |-> queue]
    ELSE IF Contains(get_dependencies(deps, items[c]), item)
    THEN KahnCandidates(items, deps, item, c + 1,
             [in_degree EXCEPT ![items[c]] = @ - 1],
             IF in_degree[items[c]] - 1 = 0 THEN Append(queue, items[c]) ELSE queue)
    ELSE KahnCandidates(items, deps, item, c + 1, in_degree, queue)

\* What the candidate loop left, handed to the next iteration of the while loop
RECURSIVE KahnLoop(_, _, _, _, _)
KahnNext(items, deps, st, result) == KahnLoop(items, deps, st.in_degree, st.queue, result)

\* topological_sort_fn: while let Some(item) = queue.pop()
KahnLoop(items, deps, in_degree, queue, result) ==
    IF queue = << >> THEN result
    ELSE KahnNext(items, deps,
                  KahnCandidates(items, deps, queue[Len(queue)], 1, in_degree,
                                 SubSeq(queue, 1, Len(queue) - 1)),
                  Append(result, queue[Len(queue)]))

\* topological_sort_fn after the cycle check: Kahn's algorithm and the final test
KahnResult(items, result) ==
    IF Len(result) = Len(items) THEN Ok(result) ELSE Err(<< >>)

\* topological_sort_fn, given what detect_cycle_fn returned
SortUnlessCycle(items, deps, cycle) ==
    IF cycle.some THEN Err(cycle.path)
    ELSE KahnResult(items,
             KahnLoop(items, deps, InDegrees(items, deps),
                      SortedSeqOf({id \in Range(items) : InDegrees(items, deps)[id] = 0}),
                      << >>))

\* topological_sort_fn
topological_sort_fn(items, deps) == SortUnlessCycle(items, deps, detect_cycle_fn(items, deps))

\* find_roots_fn
find_roots_fn(items, deps) ==
    SelectSeq(items, LAMBDA item : get_dependencies(deps, item) = << >>)

\* for dep in get_dependencies(..) { if !visited.contains(&dep) { push_back; insert } }
\* from entry k of the list dl on: [queue, visited]
RECURSIVE EnqueueNew(_, _, _, _)
EnqueueNew(dl, k, queue, visited) ==
    IF k > Len(dl) THEN [queue |-> queue, visited |-> visited]
    ELSE IF dl[k] \in visited THEN EnqueueNew(dl, k + 1, queue, visited)
    ELSE EnqueueNew(dl, k + 1, Append(queue, dl[k]), visited \cup {dl[k]})

\* compute_ancestors_fn: while let Some(current) = queue.pop_front(); st is [queue, visited]
RECURSIVE AncestorsLoop(_, _, _)
AncestorsLoop(deps, st, ancestors) ==
    IF st.queue = << >> THEN ancestors
    ELSE AncestorsLoop(deps,
             EnqueueNew(get_dependencies(deps, Head(st.queue)), 1, Tail(st.queue), st.visited),
             Append(ancestors, Head(st.queue)))

\* compute_ancestors_fn
compute_ancestors_fn(items, start, deps) ==
    AncestorsLoop(deps, EnqueueNew(get_dependencies(deps, start), 1, << >>, {}), << >>)

\* The items that list id among their dependencies, in item order
DependentsOf(items, deps, id) ==
    SelectSeq(items, LAMBDA item : Contains(get_dependencies(deps, item), id))

\* compute_descendants_fn: while let Some(current) = queue.pop_front()
RECURSIVE DescendantsLoop(_, _, _, _)
DescendantsLoop(items, deps, st, descendants) ==
    IF st.queue = << >> THEN descendants
    ELSE DescendantsLoop(items, deps,
             EnqueueNew(DependentsOf(items, deps, Head(st.queue)), 1, Tail(st.queue), st.visited),
             Append(descendants, Head(st.queue)))

\* compute_descendants_fn
compute_descendants_fn(items, start, deps) ==
    DescendantsLoop(items, deps, EnqueueNew(DependentsOf(items, deps, start), 1, << >>, {}), << >>)

\* The sum of the entries of a sequence of numbers
RECURSIVE SumSeq(_)
SumSeq(s) == IF s = << >> THEN 0 ELSE Head(s) + SumSeq(Tail(s))

\* GraphMetrics::compute, the edge count: the sum of deps.len() over the items
DepCount(items, deps) ==
    SumSeq([k \in 1..Len(items) |-> Len(get_dependencies(deps, items[k]))])

\* GraphMetrics::compute
compute(items, deps) ==
    [node_count |-> Len(items),
     edge_count |-> DepCount(items, deps),
     root_count |-> Len(find_roots_fn(items, deps)),
     leaf_count |-> Len(SelectSeq(items, LAMBDA candidate :
                            \A k \in DOMAIN items :
                                ~Contains(get_dependencies(deps, items[k]), candidate))),
     max_depth |-> Max({0} \cup {Len(compute_ancestors_fn(items, items[k], deps)) :
                                    k \in DOMAIN items}),
     max_descendants |-> Max({0} \cup {Len(compute_descendants_fn(items, items[k], deps)) :
                                          k \in DOMAIN items}),
     total_dependencies |-> DepCount(items, deps)]

\* GraphMetrics::max_depth
max_depth(metrics) == metrics.max_depth

\* The lists of distinct ids handed over as items / all_ids
ItemLists ==
    {s \in SeqsUpTo(GenericIds, MaxId) : \A j, k \in DOMAIN s : j /= k => s[j] /= s[k]}

\* The closures handed over as get_dependencies
DepFunctions == [GenericIds -> SeqsUpTo(GenericIds, MaxDeps)]

\* The diamond over four items: 2 -> 1, 3 -> 1, 4 -> {2, 3}
DiamondItems == <<1, 2, 3, 4>>
DiamondDeps == <<<< >>, <<1>>, <<1>>, <<2, 3>>>>

GenericInputs == (ItemLists \X DepFunctions) \cup {<<DiamondItems, DiamondDeps>>}

\* let items = [..]; let get_deps = |id| ..;
InitGeneric ==
    \E in \in GenericInputs :
        /\ dag = new
        /\ call = [op |-> "input", args |-> in, pre |-> << >>]
        /\ ret = Unit

\* let sorted = topological_sort_fn(&items, get_deps);
TopologicalSort ==
    /\ call' = [call EXCEPT !.op = "topological_sort_fn"]
    /\ ret' = topological_sort_fn(call.args[1], call.args[2])
    /\ UNCHANGED dag

\* let cycle = detect_cycle_fn(&items, get_deps);
DetectCycle ==
    /\ call' = [call EXCEPT !.op = "detect_cycle_fn"]
    /\ ret' = detect_cycle_fn(call.args[1], call.args[2])
    /\ UNCHANGED dag

\* let metrics = GraphMetrics::compute(&items, get_deps);
ComputeMetrics ==
    /\ call' = [call EXCEPT !.op = "compute"]
    /\ ret' = compute(call.args[1], call.args[2])
    /\ UNCHANGED dag

NextGeneric == TopologicalSort \/ DetectCycle \/ ComputeMetrics

\* Every closure over three ids with at most two dependencies per id, on every
\* list of distinct items, and the diamond.
SpecGeneric == InitGeneric /\ [][NextGeneric]_vars

----------------------------------------------------------------------------
(* Properties. The graph-theoretic notions below are defined on the edge    *)
(* list alone, independently of the traversals of the source.               *)

\* The ids reachable from the ids of S along the pairs of E (S included).
RECURSIVE Reach(_, _)
Reach(E, S) ==
    LET T == S \cup {e[2] : e \in {f \in E : f[1] \in S}}
    IN  IF T = S THEN S ELSE Reach(E, T)

\* The edge list contains a closed walk: some edge (u, v) with u reachable from v.
ClosedWalk(d) ==
    \E e \in Range(d.edges) : e[1] \in Reach(Range(d.edges), {e[2]})

\* C1: every render() call returns (the level computation does not run away,
\* no index is out of range) and the text it returns is not empty, whatever
\* the graph (cyclic, disconnected, with placeholders, built from a node list
\* that repeats an id) and whatever the render mode.
C1_RenderTotal ==
    call.op = "render" => (~ret.diverged /\ ret.text /= << >>)

C1_Witness ==
    /\ call.op = "render"
    /\ ClosedWalk(dag)
    /\ dag.auto_created /= {}
    /\ Len(find_subgraphs(dag)) > 1
    /\ ~ret.diverged
    /\ ret.text /= << >>

\* C2: when the edge list contains a closed walk, has_cycle() is true and the
\* text render() returns contains the cycle header, in every render mode and
\* whatever else the graph contains.
C2_CycleReported ==
    ClosedWalk(dag) =>
        /\ has_cycle(dag)
        /\ call.op = "has_cycle" => ret = TRUE
        /\ call.op = "render" => Contains(ret.text, CYCLE_HEADER)

C2_Witness ==
    /\ call.op = "render"
    /\ dag.render_mode = "Horizontal"
    /\ ClosedWalk(dag)
    /\ Len(find_subgraphs(dag)) > 1
    /\ \E e \in Range(dag.edges) : e[1] /= e[2] /\ <<e[2], e[1]>> \in Range(dag.edges)
    /\ Contains(ret.text, CYCLE_HEADER)

\* C3: when the edge list contains no closed walk, has_cycle() is false and
\* the text render() returns does not contain the cycle header (the header is
\* the line render_cycle emits; it is not a character of any label), in every
\* render mode.
C3_NoFalseCycle ==
    ~ClosedWalk(dag) =>
        /\ ~has_cycle(dag)
        /\ call.op = "has_cycle" => ret = FALSE
        /\ call.op = "render" => ~Contains(ret.text, CYCLE_HEADER)

C3_Witness ==
    /\ call.op = "render"
    /\ ~ClosedWalk(dag)
    /\ \E i \in DOMAIN dag.parents : Len(dag.parents[i]) >= 2
    /\ ret.text /= << >>
    /\ ~Contains(ret.text, CYCLE_HEADER)

\* s contains sub as a block of consecutive entries.
ContainsSub(s, sub) ==
    \E i \in 0..(Len(s) - Len(sub)) : \A k \in 1..Len(sub) : s[i + k] = sub[k]

\* The decimal numeral of n, most significant digit first.
RECURSIVE Decimal(_)
Decimal(n) ==
    LET digit == <<"0", "1", "2", "3", "4", "5", "6", "7", "8", "9">>[(n % 10) + 1]
    IN  IF n < 10 THEN <<digit>> ELSE Append(Decimal(n \div 10), digit)

\* The two forms a node is written in.
AngleForm(id) == <<LANGLE>> \o Decimal(id) \o <<RANGLE>>

BracketForm(label) == <<LBRACKET>> \o label \o <<RBRACKET>>

\* The entries of the node list that carry the id.
NodesWithId(d, id) == {i \in DOMAIN d.nodes : d.nodes[i][1] = id}

\* C4, in every state: an endpoint that add_edge did not know is now a node
\* with an empty label and the auto-created flag; every flagged id names
\* exactly one node, with an empty label, whose written form is <id> in
\* decimal; a render() of an acyclic graph outside forced Horizontal mode
\* (where every node is drawn) shows that form, and no rendering shows an
\* empty bracket form; a node listed to from_edges is not flagged.
C4_State ==
    /\ call.op = "add_edge" =>
           \A k \in 1..2 :
               ~call.pre[k] =>
                   /\ NodesWithId(dag, call.args[k]) /= {}
                   /\ \A i \in NodesWithId(dag, call.args[k]) : dag.nodes[i][2] = << >>
                   /\ is_auto_created(dag, call.args[k])
    /\ \A id \in dag.auto_created :
           /\ Cardinality(NodesWithId(dag, id)) = 1
           /\ dag.nodes[node_index(dag, id)] = <<id, << >>>>
           /\ write_node(dag, id, << >>) = AngleForm(id)
           /\ (call.op = "render" /\ ~ClosedWalk(dag) /\ dag.render_mode /= "Horizontal")
                  => ContainsSub(ret.text, AngleForm(id))
    /\ call.op = "render" => ~ContainsSub(ret.text, BracketForm(<< >>))
    /\ call.op = "from_edges" =>
           \A i \in DOMAIN call.args[1] : ~is_auto_created(dag, call.args[1][i][1])

\* C4, in every step: a flagged id stays flagged, with its node untouched,
\* unless the step is add_node on that id (add_edge never clears a flag), and
\* an id that is known and not flagged is never flagged afterwards.
C4_Step ==
    /\ \A id \in dag.auto_created :
           \/ call'.op = "add_node" /\ call'.args[1] = id
           \/ /\ id \in dag'.auto_created
              /\ node_index(dag', id) = node_index(dag, id)
    /\ \A id \in (DOMAIN dag.id_to_index) \ dag.auto_created : id \notin dag'.auto_created

\* C4: auto-creation by add_edge: the placeholder exists, is flagged, stays
\* flagged and is written <id> until add_node names it; an id that was
\* defined explicitly is never flagged.
C4_AutoCreation == []C4_State /\ [][C4_Step]_vars

C4_Witness ==
    /\ call.op = "add_edge"
    /\ call.pre = <<TRUE, FALSE>>
    /\ ~is_auto_created(dag, call.args[1])
    /\ is_auto_created(dag, call.args[2])
    /\ Len(dag.edges) >= 2

\* The step is add_node(id, label) on an id that is flagged auto-created.
C5_Case == call'.op = "add_node" /\ call'.args[1] \in dag.auto_created

\* What promotion does for every label: one node with the id, at the index it
\* had, carrying the new label, not flagged; edges and adjacency unchanged;
\* the form before the call was <id>.
C5_InPlace ==
    LET id == call'.args[1]
        label == call'.args[2]
    IN  /\ Cardinality(NodesWithId(dag', id)) = 1
        /\ Len(dag'.nodes) = Len(dag.nodes)
        /\ node_index(dag', id) = node_index(dag, id)
        /\ dag'.nodes[node_index(dag, id)] = <<id, label>>
        /\ \A i \in DOMAIN dag.nodes : i /= node_index(dag, id) => dag'.nodes[i] = dag.nodes[i]
        /\ ~is_auto_created(dag', id)
        /\ dag'.auto_created = dag.auto_created \ {id}
        /\ dag'.edges = dag.edges
        /\ dag'.children = dag.children
        /\ dag'.parents = dag.parents
        /\ write_node(dag, id, dag.nodes[node_index(dag, id)][2]) = AngleForm(id)

\* C5 as stated: for every label the written form becomes [label].
C5_Original ==
    [][C5_Case => (C5_InPlace /\ write_node(dag', call'.args[1], call'.args[2])
                                     = BracketForm(call'.args[2]))]_vars

\* C5: add_node(id, label) on a flagged id promotes the node in place for
\* every label (one node, same index, flag cleared, edges unchanged); its
\* written form becomes [label] when the label is not empty and stays <id>
\* when the label is empty.
C5_Promotion ==
    [][C5_Case =>
          /\ C5_InPlace
          /\ write_node(dag', call'.args[1], call'.args[2]) =
                 IF call'.args[2] /= << >> THEN BracketForm(call'.args[2])
                 ELSE AngleForm(call'.args[1])]_vars

C5_Witness ==
    /\ call.op = "add_node"
    /\ call.pre[1] /\ call.pre[2]
    /\ call.args[2] /= << >>
    /\ dag.edges /= << >>
    /\ write_node(dag, call.args[1], call.args[2]) = BracketForm(call.args[2])

\* The level the returned level_data gives to the node the id is mapped to.
LevelOf(level_data, d, id) == level_data[node_index(d, id)][2]

\* C6: calculate_levels on a graph without a closed walk returns, and for every
\* edge (u, v) the level of v is at least the level of u plus one.
C6_EdgesGoDown ==
    (call.op = "calculate_levels" /\ ~ClosedWalk(dag)) =>
        /\ ~ret.diverged
        /\ \A e \in Range(dag.edges) :
               LevelOf(ret.level_data, dag, e[2]) >= LevelOf(ret.level_data, dag, e[1]) + 1

C6_Witness ==
    /\ call.op = "calculate_levels"
    /\ ~ClosedWalk(dag)
    /\ ~ret.diverged
    /\ \E e \in Range(dag.edges) :
           LevelOf(ret.level_data, dag, e[2]) >= LevelOf(ret.level_data, dag, e[1]) + 2
    /\ \E e1, e2 \in DOMAIN dag.edges : e1 < e2 /\ dag.edges[e2][2] = dag.edges[e1][1]

\* Two entries of the node list are adjacent when an edge joins their ids.
Adjacent(d, i, j) ==
    \E e \in Range(d.edges) : {e[1], e[2]} = {d.nodes[i][1], d.nodes[j][1]}

RECURSIVE Component(_, _)
Component(d, S) ==
    LET T == S \cup {j \in DOMAIN d.nodes : \E i \in S : Adjacent(d, i, j)}
    IN  IF T = S THEN S ELSE Component(d, T)

\* The graph is not empty and is one connected component.
Connected(d) == d.nodes /= << >> /\ Component(d, {1}) = DOMAIN d.nodes

\* The lines of a text (the text split at the newlines).
RECURSIVE SplitLines(_)
SplitLines(t) ==
    IF t = << >> THEN << >>
    ELSE IF ~Contains(t, NL) THEN <<t>>
    ELSE LET i == CHOOSE k \in DOMAIN t : t[k] = NL /\ \A j \in 1..(k - 1) : t[j] /= NL
         IN  <<SubSeq(t, 1, i - 1)>> \o SplitLines(SubSeq(t, i + 1, Len(t)))

\* The positions of a line where a node form opens, left to right.
FormStarts(line) ==
    SelectSeq([k \in 1..Len(line) |-> k], LAMBDA k : line[k] \in {LBRACKET, LANGLE})

\* The node form that opens at position k of the line.
FormAt(line, k) ==
    LET close == CHOOSE c \in k..Len(line) :
                     /\ line[c] \in {RBRACKET, RANGLE}
                     /\ \A j \in k..(c - 1) : line[j] \notin {RBRACKET, RANGLE}
    IN  SubSeq(line, k, close)

\* The lines of a text that show nodes.
NodeLines(t) == SelectSeq(SplitLines(t), LAMBDA line : FormStarts(line) /= << >>)

\* The members of S in ascending order of x (x is one-to-one on S).
OrderByX(S, x) ==
    [k \in 1..Cardinality(S) |->
        CHOOSE i \in S : Cardinality({j \in S : x[j] < x[i]}) = k - 1]

\* render() took the vertical path on a connected graph without closed walk.
C7_Case ==
    /\ call.op = "render"
    /\ Connected(dag)
    /\ ~ClosedWalk(dag)
    /\ ResolvedMode(dag) = "Vertical"

\* C7: in the vertical rendering of a connected acyclic graph there is one node
\* line per level; the nodes of a level have pairwise different final
\* x-coordinates, and read from left to right the line shows exactly the forms
\* of the level's nodes in ascending order of x, at columns that differ as the
\* x-coordinates do.
C7_ColumnsFollowX ==
    C7_Case =>
        LET level_data == calculate_levels(dag).level_data
            x == VerticalLayout(dag).x_coords
            lines == NodeLines(ret.text)
            MaxLevel == Max({level_data[i][2] : i \in DOMAIN level_data})
        IN  /\ Len(lines) = MaxLevel + 1
            /\ \A l \in 1..Len(lines) :
                   LET S == {i \in DOMAIN dag.nodes : level_data[i][2] = l - 1}
                       byX == OrderByX(S, x)
                       starts == FormStarts(lines[l])
                   IN  /\ Cardinality({x[i] : i \in S}) = Cardinality(S)
                       /\ Len(starts) = Cardinality(S)
                       /\ \A k \in 1..Len(starts) :
                              /\ FormAt(lines[l], starts[k]) =
                                     write_node(dag, dag.nodes[byX[k]][1], dag.nodes[byX[k]][2])
                              /\ starts[k] - starts[1] = x[byX[k]] - x[byX[1]]
                              /\ k > 1 => starts[k] > starts[k - 1]

\* A rendering where coordinate refinement changed the order that crossing
\* reduction had left, on a level whose nodes are written differently.
C7_Witness ==
    /\ C7_Case
    /\ LET reduced == reduce_crossings(dag, GroupByLevel(calculate_levels(dag).level_data))
           final == VerticalLayout(dag).levels
       IN  \E l \in DOMAIN final :
               /\ reduced[l] /= final[l]
               /\ \A i, j \in Range(final[l]) :
                      i /= j => write_node(dag, dag.nodes[i][1], dag.nodes[i][2])
                                    /= write_node(dag, dag.nodes[j][1], dag.nodes[j][2])

\* add_node for each listed node, in order.
RECURSIVE AddNodes(_, _)
AddNodes(d, nl) ==
    IF nl = << >> THEN d
    ELSE AddNodes(add_node(d, Head(nl)[1], Head(nl)[2]), Tail(nl))

\* new() followed by add_node for each listed node and add_edge for each listed edge.
Incremental(nl, el) == AddEdges(AddNodes(new, nl), el)

\* C9: the graph from_edges(nodes, edges) returns has the state (node
\* sequence, labels, flags, id->index map, cached widths, adjacency lists,
\* edge list) and the rendering of the graph built from new() by add_node for
\* each listed node and add_edge for each listed edge.
C9_FromEdgesIsIncremental ==
    call.op = "from_edges" =>
        LET inc == Incremental(call.args[1], call.args[2])
        IN  /\ dag = inc
            /\ render(dag) = render(inc)

\* The ids with an edge into id / out of id, and the edges themselves.
ParentIds(d, id) == {e[1] : e \in {f \in Range(d.edges) : f[2] = id}}

ChildIds(d, id) == {e[2] : e \in {f \in Range(d.edges) : f[1] = id}}

InEdges(d, id) == {e \in DOMAIN d.edges : d.edges[e][2] = id}

OutEdges(d, id) == {e \in DOMAIN d.edges : d.edges[e][1] = id}

NodeIds(d) == {d.nodes[i][1] : i \in DOMAIN d.nodes}

\* render() on a non-empty graph without closed walk, in Auto mode.
C10_Case ==
    /\ call.op = "render"
    /\ dag.nodes /= << >>
    /\ ~ClosedWalk(dag)
    /\ dag.render_mode = "Auto"

\* Auto resolved to Horizontal: the text is the one line of render_horizontal,
\* with one node form per id.
TookHorizontal ==
    /\ ResolvedMode(dag) = "Horizontal"
    /\ ret.text = render_horizontal(dag)
    /\ Len(SplitLines(ret.text)) = 1
    /\ Len(FormStarts(ret.text)) = Cardinality(NodeIds(dag))

\* Auto resolved to Vertical: the text is the one of render_vertical.
TookVertical ==
    /\ ResolvedMode(dag) = "Vertical"
    /\ ret.text = render_vertical(dag).text

FormOf(d, id) ==
    LET label == d.nodes[Min(NodesWithId(d, id))][2]
    IN  IF label = << >> \/ id \in d.auto_created THEN AngleForm(id) ELSE BracketForm(label)

\* The id of the first listed node no edge leads into.
FirstRootId(d) == d.nodes[Min({i \in DOMAIN d.nodes : InEdges(d, d.nodes[i][1]) = {}})][1]

\* The walk from id that moves to the target of the first listed edge out of
\* the current id until there is none (on a graph without closed walk).
RECURSIVE FirstChildWalk(_, _)
FirstChildWalk(d, id) ==
    IF OutEdges(d, id) = {} THEN <<id>>
    ELSE <<id>> \o FirstChildWalk(d, d.edges[Min(OutEdges(d, id))][2])

\* The forms of the ids of a walk, joined by " -> ".
RECURSIVE JoinForms(_, _)
JoinForms(d, walk) ==
    IF Len(walk) = 1 THEN FormOf(d, walk[1])
    ELSE FormOf(d, walk[1]) \o <<SPACE, ARROW_RIGHT, SPACE>> \o JoinForms(d, Tail(walk))

\* Connected, and every node with at most one edge in and one edge out.
IsChain(d) ==
    /\ Connected(d)
    /\ \A id \in NodeIds(d) :
           Cardinality(InEdges(d, id)) <= 1 /\ Cardinality(OutEdges(d, id)) <= 1

\* render() of a non-empty graph without closed walk that is rendered
\* horizontally: Horizontal mode, or Auto mode on a chain.
C11_Case ==
    /\ call.op = "render"
    /\ dag.nodes /= << >>
    /\ ~ClosedWalk(dag)
    /\ dag.render_mode = "Horizontal" \/ (dag.render_mode = "Auto" /\ IsChain(dag))

\* C11: the horizontal rendering of a non-empty graph without closed walk is
\* one line: the forms of the first-child walk from the first root, joined by
\* the right arrow; when the graph is a chain the walk holds every node id
\* exactly once and each id is followed by the target of its edge.
C11_HorizontalWalk ==
    C11_Case =>
        LET walk == FirstChildWalk(dag, FirstRootId(dag))
        IN  /\ ret.text = JoinForms(dag, walk) \o <<NL>>
            /\ ~Contains(JoinForms(dag, walk), NL)
            /\ IsChain(dag) =>
                   /\ Len(walk) = Cardinality(NodeIds(dag))
                   /\ Range(walk) = NodeIds(dag)
                   /\ \A k \in 1..(Len(walk) - 1) : <<walk[k], walk[k + 1]>> \in Range(dag.edges)

\* Horizontal mode forced on a graph that branches, with two roots, the walk
\* following the first listed edge to a child that is not the smallest one.
C11_Witness ==
    /\ C11_Case
    /\ ~IsChain(dag)
    /\ Cardinality({id \in NodeIds(dag) : InEdges(dag, id) = {}}) >= 2
    /\ LET walk == FirstChildWalk(dag, FirstRootId(dag))
       IN  /\ Len(walk) >= 3
           /\ \E e \in Range(dag.edges) : e[1] = walk[1] /\ e[2] < walk[2]
           /\ ret.text = JoinForms(dag, walk) \o <<NL>>

\* The form the node entry i is written in.
EntryForm(d, i) ==
    IF d.nodes[i][2] = << >> \/ d.nodes[i][1] \in d.auto_created
    THEN AngleForm(d.nodes[i][1])
    ELSE BracketForm(d.nodes[i][2])

\* The tokens a connector block is drawn with.
ConnectorGlyphs ==
    {V_LINE, H_LINE, ARROW_DOWN, CORNER_DR, CORNER_DL, CORNER_UR, CORNER_UL, TEE_DOWN, TEE_UP}

\* A line of a connector block: glyphs and spaces only, at least one glyph.
ConnectorLine(line) ==
    /\ Range(line) \subseteq ConnectorGlyphs \cup {SPACE}
    /\ Range(line) \cap ConnectorGlyphs /= {}

\* The lines lo..hi of lines are a connector block: at least two lines, all of
\* them connector lines, the first with a vertical bar, the last with an arrow head.
ConnectorBlock(lines, lo, hi) ==
    /\ hi > lo
    /\ \A k \in lo..hi : ConnectorLine(lines[k])
    /\ Contains(lines[lo], V_LINE)
    /\ Contains(lines[hi], ARROW_DOWN)

\* The indices of the lines that show nodes, ascending.
NodeLineIndices(lines) ==
    SelectSeq([k \in 1..Len(lines) |-> k], LAMBDA k : FormStarts(lines[k]) /= << >>)

\* C12: in the vertical rendering of a connected graph without closed walk the
\* text ends with a newline and has one node line per level, the first line
\* being the node line of level 0 and the last line that of the last level; the
\* node line of a level shows each form as often as the level has nodes written
\* in that form, so every node is written once, on the line of its level; the
\* lines between two consecutive node lines are a connector block. For the
\* diamond the first block is drawn with the divergence corners and the second
\* with the convergence corners.
C12_OneLinePerLevel ==
    C7_Case =>
        LET level_data == calculate_levels(dag).level_data
            MaxLevel == Max({level_data[i][2] : i \in DOMAIN level_data})
            lines == SplitLines(ret.text)
            at == NodeLineIndices(lines)
        IN  /\ ret.text[Len(ret.text)] = NL
            /\ Len(at) = MaxLevel + 1
            /\ at[1] = 1
            /\ at[Len(at)] = Len(lines)
            /\ \A l \in 1..Len(at) :
                   LET S == {i \in DOMAIN dag.nodes : level_data[i][2] = l - 1}
                       starts == FormStarts(lines[at[l]])
                   IN  /\ Len(starts) = Cardinality(S)
                       /\ \A i \in S :
                              Cardinality({k \in DOMAIN starts :
                                              FormAt(lines[at[l]], starts[k]) = EntryForm(dag, i)})
                                  = Cardinality({j \in S : EntryForm(dag, j) = EntryForm(dag, i)})
            /\ \A l \in 1..(Len(at) - 1) : ConnectorBlock(lines, at[l] + 1, at[l + 1] - 1)
            /\ (dag.nodes = FourNodes /\ dag.edges = DiamondEdges) =>
                   /\ Len(at) = 3
                   /\ FormStarts(lines[at[1]]) = <<FormStarts(lines[at[1]])[1]>>
                   /\ Len(FormStarts(lines[at[2]])) = 2
                   /\ Len(FormStarts(lines[at[3]])) = 1
                   /\ \E k \in (at[1] + 1)..(at[2] - 1) :
                          {CORNER_UR, CORNER_UL} \subseteq Range(lines[k])
                   /\ \E k \in (at[2] + 1)..(at[3] - 1) :
                          {CORNER_DR, CORNER_DL} \subseteq Range(lines[k])

\* The vertical rendering of the diamond.
C12_Witness ==
    /\ C7_Case
    /\ dag.nodes = FourNodes
    /\ dag.edges = DiamondEdges
    /\ Len(NodeLineIndices(SplitLines(ret.text))) = 3
    /\ Contains(ret.text, CORNER_UR)
    /\ Contains(ret.text, CORNER_DR)

\* p is a cycle of the edge list: each id has an edge to the next one and the
\* last id has an edge to the first; no id occurs twice.
IsCycle(d, p) ==
    /\ p /= << >>
    /\ \A k \in 1..(Len(p) - 1) : <<p[k], p[k + 1]>> \in Range(d.edges)
    /\ <<p[Len(p)], p[1]>> \in Range(d.edges)
    /\ \A j, k \in DOMAIN p : j /= k => p[j] /= p[k]

\* render() of a graph whose edge list contains a closed walk.
C13_Case == call.op = "render" /\ ClosedWalk(dag)

\* C13: the cycle warning is six lines: the header, an empty line, the title,
\* the chain, an empty line, the footer. The cycle path reported is a cycle of
\* the edge list, and the chain is the forms of its ids joined by the right
\* arrow, then the cycle arrow, then the form of its first id again; for a
\* single edge (1, 1) the chain is the form of node 1, the cycle arrow, and
\* the form of node 1.
C13_CycleChain ==
    C13_Case =>
        LET found == find_cycle_path(dag)
            lines == SplitLines(ret.text)
        IN  /\ found.some
            /\ IsCycle(dag, found.path)
            /\ Len(lines) = 6
            /\ lines[1] = <<CYCLE_HEADER>>
            /\ lines[2] = << >>
            /\ lines[3] = <<CYCLE_CHAIN_TITLE>>
            /\ lines[4] = JoinForms(dag, found.path) \o <<SPACE, CYCLE_ARROW, SPACE>>
                              \o FormOf(dag, found.path[1])
            /\ lines[5] = << >>
            /\ lines[6] = <<CYCLE_FOOTER>>
            /\ Len(SelectSeq(ret.text, LAMBDA t : t = CYCLE_ARROW)) = 1
            /\ dag.edges = <<<<1, 1>>>> =>
                   lines[4] = FormOf(dag, 1) \o <<SPACE, CYCLE_ARROW, SPACE>> \o FormOf(dag, 1)

\* A reported cycle of three nodes that does not start at the first node and
\* is written in both forms.
C13_Witness ==
    /\ C13_Case
    /\ LET p == find_cycle_path(dag).path
       IN  /\ Len(p) = 3
           /\ p[1] /= dag.nodes[1][1]
           /\ \E k \in DOMAIN p : FormOf(dag, p[k])[1] = LANGLE
           /\ \E k \in DOMAIN p : FormOf(dag, p[k])[1] = LBRACKET
           /\ ContainsSub(ret.text, <<SPACE, CYCLE_ARROW, SPACE>> \o FormOf(dag, p[1]))

\* C14: render() of a graph without nodes returns the placeholder and nothing
\* else, in every render mode (such a graph has no edge either, so neither the
\* cycle check nor the mode selection has anything to report); a graph with a
\* node is never rendered as the placeholder.
C14_EmptyDag ==
    call.op = "render" =>
        /\ dag.nodes = << >> =>
               /\ dag.edges = << >>
               /\ ret = [diverged |-> FALSE, text |-> <<EMPTY_DAG>>]
        /\ dag.nodes /= << >> => ~Contains(ret.text, EMPTY_DAG)

\* render() of the empty graph after the mode was set to Horizontal.
C14_Witness ==
    /\ call.op = "render"
    /\ dag.nodes = << >>
    /\ dag.render_mode = "Horizontal"
    /\ ret.text = <<EMPTY_DAG>>

\* C15: no render() returns the "(no root)" text or the "Complex cycle" text:
\* find_cycle_path finds a path whenever has_cycle() is true, a non-empty graph
\* for which has_cycle() is false has a node without parents, and a horizontal
\* rendering ends with a node form (the walk never stops at a node it has
\* visited, which would leave an arrow at the end of the line).
C15_DefensiveBranches ==
    /\ has_cycle(dag) => find_cycle_path(dag).some
    /\ (dag.nodes /= << >> /\ ~has_cycle(dag)) =>
           \E i \in DOMAIN dag.nodes : get_parents(dag, dag.nodes[i][1]) = << >>
    /\ call.op = "render" =>
           /\ ~Contains(ret.text, NO_ROOT)
           /\ ~Contains(ret.text, COMPLEX_CYCLE)
           /\ (dag.nodes /= << >> /\ ~has_cycle(dag) /\ ResolvedMode(dag) = "Horizontal") =>
                  /\ Len(ret.text) >= 2
                  /\ ret.text[Len(ret.text)] = NL
                  /\ ret.text[Len(ret.text) - 1] \in {RBRACKET, RANGLE}

\* render() in Horizontal mode of a graph of four nodes none of which is a
\* root, the cycle lying off the first node.
C15_Witness ==
    /\ call.op = "render"
    /\ dag.render_mode = "Horizontal"
    /\ Len(dag.nodes) = 4
    /\ \A i \in DOMAIN dag.nodes : get_parents(dag, dag.nodes[i][1]) /= << >>
    /\ find_cycle_path(dag).some
    /\ ~Contains(find_cycle_path(dag).path, dag.nodes[1][1])
    /\ Contains(ret.text, CYCLE_CHAIN_TITLE)

\* The column of the center of the node idx on the node line of level l.
CenterColumn(d, lay, l, idx) ==
    lay.x_coords[idx] - LevelMinX(lay.levels[l], lay.x_coords)
        + CenterOffset(lay.max_canvas_width, lay.level_widths[l])
        + (get_node_width(d, idx) \div 2)

\* The connections found for the connector block between the levels l and l + 1.
BlockConnections(d, lay, l) ==
    SugiyamaConnections(d, lay.levels[l], lay.levels[l + 1], lay.x_coords,
                        LevelMinX(lay.levels[l], lay.x_coords),
                        CenterOffset(lay.max_canvas_width, lay.level_widths[l]),
                        CenterOffset(lay.max_canvas_width, lay.level_widths[l + 1]))

\* The edge e contributes a connection to some connector block: a connection
\* found at its source node that ends at the center column of its target node.
EdgeDrawn(d, lay, e) ==
    \E l \in 1..(Len(lay.levels) - 1) :
        /\ node_index(d, e[2]) \in Range(lay.levels[l + 1])
        /\ \E c \in Range(BlockConnections(d, lay, l)) :
               /\ c[1] = node_index(d, e[1])
               /\ c[3] = CenterColumn(d, lay, l + 1, node_index(d, e[2]))

\* C16: in the vertical rendering of a connected graph without closed walk
\* every edge, an edge that skips a level included, contributes a connection
\* to the connector block between some pair of adjacent levels.
C16_SkipEdgesDrawn ==
    C7_Case => \A e \in Range(dag.edges) : EdgeDrawn(dag, VerticalLayout(dag), e)

\* The same for the edges that join adjacent levels only.
C16_AdjacentEdgesDrawn ==
    C7_Case =>
        LET level_data == calculate_levels(dag).level_data
        IN  \A e \in Range(dag.edges) :
                LevelOf(level_data, dag, e[2]) = LevelOf(level_data, dag, e[1]) + 1
                    => EdgeDrawn(dag, VerticalLayout(dag), e)

\* The dependency relation over the items: the pairs (item, dependency) with
\* both ends listed.
DepEdges(items, deps) ==
    {<<items[k], b>> : k \in DOMAIN items, b \in Range(items)} \cap
    {e \in Range(items) \X Range(items) : Contains(get_dependencies(deps, e[1]), e[2])}

\* The relation has a cycle: some pair (a, b) with a reachable from b.
Cyclic(E) == \E e \in E : e[1] \in Reach(E, {e[2]})

\* order is a permutation of items.
IsPermutation(order, items) ==
    /\ Len(order) = Len(items)
    /\ \A k \in DOMAIN items : Cardinality({j \in DOMAIN order : order[j] = items[k]}) = 1

\* C17: topological_sort_fn on a list of distinct items returns Err exactly
\* when the dependency relation over the items has a cycle; otherwise it
\* returns Ok(order), order being a permutation of the items in which every
\* item comes after each of its dependencies that is an item (a dependency
\* listed twice, or one that is not an item, changes nothing).
C17_TopologicalSort ==
    call.op = "topological_sort_fn" =>
        LET items == call.args[1]
            deps == call.args[2]
            E == DepEdges(items, deps)
        IN  IF Cyclic(E) THEN ~ret.ok
            ELSE /\ ret.ok
                 /\ IsPermutation(ret.value, items)
                 /\ \A e \in E :
                        \E i, j \in DOMAIN ret.value :
                            i < j /\ ret.value[i] = e[2] /\ ret.value[j] = e[1]

\* The same for the inputs in which every dependency is an item and no
\* dependency list repeats an id.
C17_CleanInputs ==
    (/\ call.op = "topological_sort_fn"
     /\ \A k \in DOMAIN call.args[1] :
            LET dl == get_dependencies(call.args[2], call.args[1][k])
            IN  /\ Range(dl) \subseteq Range(call.args[1])
                /\ Cardinality(Range(dl)) = Len(dl))
        => C17_TopologicalSort

\* The ids of E that lie on a cycle together with id.
OnCycleWith(E, id) == {b \in Reach(E, {id}) : id \in Reach(E, {e[2] : e \in {f \in E : f[1] = b}})}

\* C18: detect_cycle_fn returns None when the dependency relation over all_ids
\* has no cycle; when it has one it returns Some(path), path not empty and all
\* the ids of path lying on one cycle of the relation.
C18_DetectCycle ==
    call.op = "detect_cycle_fn" =>
        LET E == DepEdges(call.args[1], call.args[2])
        IN  IF ~Cyclic(E) THEN ret = NoPath
            ELSE /\ ret.some
                 /\ ret.path /= << >>
                 /\ \A a, b \in Range(ret.path) : b \in OnCycleWith(E, a)

\* What detect_cycle_fn does return: None exactly when there is no cycle, else
\* a path that starts with an id on a cycle.
C18_CycleFound ==
    call.op = "detect_cycle_fn" =>
        LET E == DepEdges(call.args[1], call.args[2])
        IN  IF ~Cyclic(E) THEN ret = NoPath
            ELSE /\ ret.some
                 /\ ret.path /= << >>
                 /\ ret.path[1] \in OnCycleWith(E, ret.path[1])

\* Every dependency the closure lists, an item or not.
AllDepEdges(deps) == {e \in (DOMAIN deps) \X (1..(MaxId + 1)) : Contains(deps[e[1]], e[2])}

\* The largest number of edges on a dependency path that starts at id (on a
\* relation without cycle).
RECURSIVE ChainLength(_, _)
ChainLength(E, id) ==
    IF {e \in E : e[1] = id} = {} THEN 0
    ELSE 1 + Max({ChainLength(E, e[2]) : e \in {f \in E : f[1] = id}})

\* C19: when the dependencies have no cycle, the max_depth of
\* GraphMetrics::compute is the largest number of edges on a dependency path
\* from an item: 0 without dependencies, 2 for the diamond.
C19_MaxDepth ==
    (call.op = "compute" /\ ~Cyclic(AllDepEdges(call.args[2]))) =>
        /\ max_depth(ret) =
               Max({0} \cup {ChainLength(AllDepEdges(call.args[2]), call.args[1][k]) :
                                k \in DOMAIN call.args[1]})
        /\ call.args = <<DiamondItems, DiamondDeps>> => max_depth(ret) = 2

\* What max_depth is: the largest number of ids an item transitively depends on.
C19_AncestorCount ==
    (call.op = "compute" /\ ~Cyclic(AllDepEdges(call.args[2]))) =>
        max_depth(ret) =
            Max({0} \cup {Cardinality(Reach(AllDepEdges(call.args[2]), {call.args[1][k]})) - 1 :
                             k \in DOMAIN call.args[1]})


\* The id->index map of d is a bijection between the ids of the node sequence
\* and their positions, and it knows every id an edge references.
MapIsBijection(d) ==
    /\ \A i, j \in 1..Len(d.nodes) : d.nodes[i][1] = d.nodes[j][1] => i = j
    /\ \A i \in 1..Len(d.nodes) : node_index(d, d.nodes[i][1]) = i
    /\ Cardinality(DOMAIN d.id_to_index) = Len(d.nodes)
    /\ \A k \in 1..Len(d.edges) :
           /\ d.edges[k][1] \in DOMAIN d.id_to_index
           /\ d.edges[k][2] \in DOMAIN d.id_to_index

\* Every id the map knows before a step keeps its index, and the node at that
\* index keeps the id.
IndexStable ==
    \A id \in DOMAIN dag.id_to_index :
        /\ node_index(dag', id) = dag.id_to_index[id]
        /\ dag'.nodes[dag.id_to_index[id]][1] = id

\* C20: in a graph grown from new() by add_node and add_edge calls the
\* id->index map is a bijection between the ids of the node sequence and their
\* positions (no id twice, each node's id maps to the node's index, one entry
\* per node), every id an edge references has an entry, and no call changes the
\* index of a node that exists.
C20_IndexMap == [](MapIsBijection(dag)) /\ [][IndexStable]_vars

\* An add_node for an id that an edge had created, in a graph of two nodes: the
\* lookup found the id and the node kept its index.
C20_Witness ==
    /\ call.op = "add_node"
    /\ call.pre[1]
    /\ call.pre[3] = 2
    /\ node_index(dag, call.args[1]) = 2
    /\ Len(dag.nodes) = 2
    /\ Len(dag.edges) >= 1
    /\ MapIsBijection(dag)


\* The edges of d that leave (side 1) or enter (side 2) the id, in insertion order.
EdgesAt(d, id, side) ==
    LET Touches(e) == e[side] = id IN SelectSeq(d.edges, Touches)

\* The indices of the far ends of the edges at the node of index i: the targets of
\* the edges leaving it (side 1), the sources of the edges entering it (side 2).
FarEnds(d, i, side) ==
    [k \in 1..Len(EdgesAt(d, d.nodes[i][1], side)) |->
        node_index(d, EdgesAt(d, d.nodes[i][1], side)[k][3 - side])]

\* C21: in a graph grown from new() by add_node and add_edge calls, children[i]
\* is the sequence of the indices of the targets of the edges leaving node i and
\* parents[i] the sequence of the indices of the sources of the edges entering
\* it, in edge insertion order with duplicates kept, and the children, parents
\* and width arrays have one entry per node.
C21_AdjacencyAgrees ==
    /\ Len(dag.children) = Len(dag.nodes)
    /\ Len(dag.parents) = Len(dag.nodes)
    /\ Len(dag.node_widths) = Len(dag.nodes)
    /\ \A i \in 1..Len(dag.nodes) :
           /\ dag.children[i] = FarEnds(dag, i, 1)
           /\ dag.parents[i] = FarEnds(dag, i, 2)

\* The same edge was added twice, after an edge of the other direction: a node
\* has the same child twice in its list and is a parent of its own parent.
C21_Witness ==
    /\ call.op = "add_edge"
    /\ Len(dag.edges) = 3
    /\ dag.edges[2] = dag.edges[3]
    /\ dag.edges[1] = <<dag.edges[2][2], dag.edges[2][1]>>
    /\ dag.edges[1][1] /= dag.edges[1][2]
    /\ \E i \in 1..Len(dag.nodes) : Len(dag.children[i]) = 2 /\ dag.children[i][1] = dag.children[i][2]


\* The number of characters of the form the node of index i is written in.
FormWidth(d, i) ==
    IF d.nodes[i][2] = << >> \/ d.nodes[i][1] \in d.auto_created
    THEN 2 + Len(Decimal(d.nodes[i][1]))
    ELSE 2 + Len(d.nodes[i][2])

\* C22: the cached width of every node is the number of characters of its
\* rendered form, 2 + the number of digits of the id for an auto-created node or
\* an empty label, 2 + the number of characters of the label otherwise, also
\* after a promotion has changed the label and the auto-created flag.
C22_WidthCache ==
    \A i \in 1..Len(dag.nodes) :
        /\ i \in DOMAIN dag.node_widths
        /\ dag.node_widths[i] = FormWidth(dag, i)
        /\ dag.node_widths[i] = Len(write_node(dag, dag.nodes[i][1], dag.nodes[i][2]))
        /\ get_node_width(dag, i) = FormWidth(dag, i)

\* An add_node has promoted the auto-created node 10, of width 4, to a label of
\* one character: the cached width is 3.
C22_Witness ==
    /\ call.op = "add_node"
    /\ call.args = <<10, <<"A">>>>
    /\ call.pre[2]
    /\ dag.node_widths[node_index(dag, 10)] = 3
    /\ 10 \notin dag.auto_created


\* The indices of the parents of the node of index i, as the edge list gives them.
ParentIndices(d, i) ==
    {node_index(d, e[1]) : e \in {f \in Range(d.edges) : node_index(d, f[2]) = i}}

\* The number of edges of the longest path that ends at the node of index i (on
\* a graph without a closed walk).
RECURSIVE LongestPathTo(_, _)
LongestPathTo(d, i) ==
    IF ParentIndices(d, i) = {} THEN 0
    ELSE 1 + Max({LongestPathTo(d, p) : p \in ParentIndices(d, i)})

\* C23: on a graph without a closed walk calculate_levels returns a fixed point
\* (one more scan of the edges changes nothing) in which the level of each node
\* is the length of the longest path from a parentless node to it: 0 for a node
\* without parents, 1 + the largest level of its parents otherwise.
C23_LongestPathLevels ==
    (call.op = "calculate_levels" /\ ~ClosedWalk(dag)) =>
        /\ ~ret.diverged
        /\ Len(ret.level_data) = Len(dag.nodes)
        /\ ~LevelsPass(dag, AllIds(dag), 1,
                       [i \in 1..Len(dag.nodes) |-> ret.level_data[i][2]], FALSE).changed
        /\ \A i \in 1..Len(dag.nodes) :
               /\ ret.level_data[i][1] = i
               /\ ret.level_data[i][2] = LongestPathTo(dag, i)
               /\ ret.level_data[i][2] =
                      IF ParentIndices(dag, i) = {} THEN 0
                      ELSE 1 + Max({ret.level_data[p][2] : p \in ParentIndices(dag, i)})

\* calculate_levels on the edges 2->3, 1->2, 1->3 in this order: node 3 has a
\* parent of level 0 and a parent of level 1, the first scan leaves it on level
\* 1, and the result puts it on level 2.
C23_Witness ==
    /\ call.op = "calculate_levels"
    /\ dag.edges = <<<<2, 3>>, <<1, 2>>, <<1, 3>>>>
    /\ ~ret.diverged
    /\ ret.level_data[node_index(dag, 1)][2] = 0
    /\ ret.level_data[node_index(dag, 2)][2] = 1
    /\ ret.level_data[node_index(dag, 3)][2] = 2


\* C24: calculate_levels terminates on every graph, a graph with a cycle or a
\* self-loop included: the relaxation leaves its loop within the pass limit
\* that the number of nodes gives.
C24_LevelsTerminate == call.op = "calculate_levels" => ~ret.diverged

\* What the loop does: it leaves exactly when the graph has no closed walk.
C24_DivergesOnClosedWalk ==
    call.op = "calculate_levels" => (ret.diverged <=> ClosedWalk(dag))


\* A closed walk can be reached from the id.
ReachesCycle(d, id) ==
    \E e \in Range(d.edges) :
        /\ e[1] \in Reach(Range(d.edges), {id})
        /\ e[1] \in Reach(Range(d.edges), {e[2]})

\* The first node, in insertion order, from which a closed walk can be reached.
FirstCycleStart(d) == Min({i \in DOMAIN d.nodes : ReachesCycle(d, d.nodes[i][1])})

\* C25: find_cycle_path returns none exactly when the graph has no closed walk.
\* Otherwise it returns a non-empty sequence of pairwise distinct ids in which
\* each id has an edge to the next and the last has an edge to the first (the
\* path is not closed: the first id is not repeated at the end). The search
\* starts from the nodes in insertion order, so the ids returned are reachable
\* from the first node that reaches a cycle, and the sequence starts at the
\* revisited node and not at the start of the search: on 1 -> 2 -> 3 -> 2 it is
\* 2, 3.
C25_CyclePath ==
    call.op = "find_cycle_path" =>
        /\ ~ret.some <=> ~ClosedWalk(dag)
        /\ ~ret.some => ret.path = << >>
        /\ ret.some =>
               /\ IsCycle(dag, ret.path)
               /\ Range(ret.path) \subseteq
                      Reach(Range(dag.edges), {dag.nodes[FirstCycleStart(dag)][1]})
        /\ (dag.edges = <<<<1, 2>>, <<2, 3>>, <<3, 2>>>> /\ node_index(dag, 1) < node_index(dag, 2))
               => ret.path = <<2, 3>>

\* find_cycle_path on a graph with two cycles, 3 <-> 4 and the self-loop of 2,
\* neither through the first node: the search from node 1 returns the cycle it
\* revisits first.
C25_Witness ==
    /\ call.op = "find_cycle_path"
    /\ dag.nodes = FourNodes
    /\ dag.edges = <<<<1, 3>>, <<3, 4>>, <<4, 3>>>>
    /\ ret = SomePath(<<3, 4>>)


\* The connections of the edges that join level l to level l + 1 (l counted
\* from 1): the pairs <<center column of the source, center column of the target>>.
LevelPairs(d, lay, l) ==
    {<<CenterColumn(d, lay, l, node_index(d, e[1])),
       CenterColumn(d, lay, l + 1, node_index(d, e[2]))>> :
        e \in {f \in Range(d.edges) : /\ node_index(d, f[1]) \in Range(lay.levels[l])
                                      /\ node_index(d, f[2]) \in Range(lay.levels[l + 1])}}

SourcesOf(P, t) == {p[1] : p \in {q \in P : q[2] = t}}

TargetsOf(P, s) == {p[2] : p \in {q \in P : q[1] = s}}

\* The targets of P that more than one source leads to.
Convergent(P) == {t \in {p[2] : p \in P} : Cardinality(SourcesOf(P, t)) > 1}

\* Some target has more than one source and no source has more than one target.
PureConvergence(P) ==
    /\ Convergent(P) /= {}
    /\ \A p \in P : Cardinality(TargetsOf(P, p[1])) = 1

\* The columns strictly between the leftmost and the rightmost source of t.
Inside(P, t) == {c \in Min(SourcesOf(P, t))..Max(SourcesOf(P, t)) :
                    c /= Min(SourcesOf(P, t)) /\ c /= Max(SourcesOf(P, t))}

\* The glyph of column c (counted from 0) of a line, a space beyond its end.
GlyphAt(line, c) == IF c + 1 \in DOMAIN line THEN line[c + 1] ELSE SPACE

\* The three lines of a convergence block for the connections P: bars at the
\* source columns; for each convergent target the corners at its leftmost and
\* rightmost source, a tee at each source in between and a bar at the other
\* columns in between, blanks outside every span; arrow heads at the target
\* columns.
ConvergenceBlock(P, l1, l2, l3) ==
    /\ \A c \in 0..(Len(l1) - 1) : (l1[c + 1] = V_LINE) <=> (c \in {p[1] : p \in P})
    /\ \A p \in P : GlyphAt(l1, p[1]) = V_LINE
    /\ \A t \in Convergent(P) :
           /\ GlyphAt(l2, Min(SourcesOf(P, t))) = CORNER_DR
           /\ GlyphAt(l2, Max(SourcesOf(P, t))) = CORNER_DL
           /\ \A c \in Inside(P, t) :
                  IF c \in SourcesOf(P, t) THEN GlyphAt(l2, c) = TEE_UP
                  ELSE (\A u \in Convergent(P) : c \notin SourcesOf(P, u)) =>
                           GlyphAt(l2, c) = H_LINE
    /\ \A c \in 0..(Len(l2) - 1) :
           (\A t \in Convergent(P) : c \notin Min(SourcesOf(P, t))..Max(SourcesOf(P, t)))
               => l2[c + 1] = SPACE
    /\ \A c \in 0..(Len(l3) - 1) : (l3[c + 1] = ARROW_DOWN) <=> (c \in {p[2] : p \in P})
    /\ \A p \in P : GlyphAt(l3, p[2]) = ARROW_DOWN

\* The connector blocks of pure convergence in the rendering are drawn as
\* ConvergenceBlock says: all of them when overlapping is TRUE, otherwise those
\* in which no span of a convergent target reaches into the span of another.
ConvergenceBlocks(d, lay, lines, at, overlapping) ==
    \A l \in 1..(Len(at) - 1) :
        (/\ PureConvergence(LevelPairs(d, lay, l))
         /\ overlapping \/ \A t, u \in Convergent(LevelPairs(d, lay, l)) :
                t /= u => \/ Max(SourcesOf(LevelPairs(d, lay, l), t))
                               < Min(SourcesOf(LevelPairs(d, lay, l), u))
                          \/ Max(SourcesOf(LevelPairs(d, lay, l), u))
                               < Min(SourcesOf(LevelPairs(d, lay, l), t)))
        => /\ at[l + 1] - at[l] = 4
           /\ ConvergenceBlock(LevelPairs(d, lay, l),
                               lines[at[l] + 1], lines[at[l] + 2], lines[at[l] + 3])

\* C26: in the vertical rendering of a connected graph without closed walk, the
\* connector block of a level pair in which some target has more than one
\* source and no source more than one target is three lines: bars at the source
\* columns; for each target with more than one source a down-right corner at
\* its leftmost source column, a down-left corner at its rightmost, an up tee
\* at each source column in between, a horizontal bar at the other columns in
\* between; arrow heads at the target columns. The spans of two such targets
\* may overlap.
C26_ConvergenceBlock ==
    C7_Case => ConvergenceBlocks(dag, VerticalLayout(dag), SplitLines(ret.text),
                                 NodeLineIndices(SplitLines(ret.text)), TRUE)

\* The same for the level pairs in which no span reaches into another.
C26_DisjointSpans ==
    C7_Case => ConvergenceBlocks(dag, VerticalLayout(dag), SplitLines(ret.text),
                                 NodeLineIndices(SplitLines(ret.text)), FALSE)


\* The text column (counted from 0) of the center of the k-th form of a node
\* line: the column the form opens at plus half its width.
FormCenter(line, k) ==
    (FormStarts(line)[k] - 1) + (Len(FormAt(line, FormStarts(line)[k])) \div 2)

\* The node entry i has a child among the entries next.
HasChildIn(d, i, next) ==
    \E e \in Range(d.edges) : e[1] = d.nodes[i][1] /\ node_index(d, e[2]) \in Range(next)

\* The text columns (counted from 0) of the vertical bars of a line.
BarColumns(line) == {c \in 0..(Len(line) - 1) : line[c + 1] = V_LINE}

\* In the lines of a vertical rendering whose node lines show the levels in
\* order, the line under the node line of a level has its vertical bars at the
\* centers of the forms of the nodes that have a child in the next level, and
\* nowhere else.
BarsAligned(d, levels, lines, at) ==
    /\ Len(at) = Len(levels)
    /\ \A l \in 1..(Len(levels) - 1) :
           (\E k \in DOMAIN levels[l] : HasChildIn(d, levels[l][k], levels[l + 1]))
           => /\ at[l] + 1 < at[l + 1]
              /\ BarColumns(lines[at[l] + 1])
                     = {FormCenter(lines[at[l]], k) :
                           k \in {j \in DOMAIN levels[l] : HasChildIn(d, levels[l][j], levels[l + 1])}}

\* The components of a graph with several components that render_subgraph
\* draws level by level.
LeveledComponents(d) ==
    {sg \in Range(find_subgraphs(d)) : ~is_subgraph_simple_chain(d, sg)}

\* The bars of the rendering of one component are aligned with its nodes.
ComponentAligned(d, sg) ==
    BarsAligned(d, GroupByLevel(calculate_levels_for_subgraph(d, sg).level_data),
                SplitLines(render_subgraph(d, sg).text),
                NodeLineIndices(SplitLines(render_subgraph(d, sg).text)))

\* render() took the vertical path on a graph without closed walk that has
\* more than one component and no id on two node entries.
C27_Components ==
    /\ call.op = "render"
    /\ MapIsBijection(dag)
    /\ ~ClosedWalk(dag)
    /\ ResolvedMode(dag) = "Vertical"
    /\ Len(find_subgraphs(dag)) > 1

\* The single-component pipeline: the bars of every connector block stand at
\* the centers of the nodes above that have a child in the next level.
C27_SingleComponent ==
    C7_Case => BarsAligned(dag, VerticalLayout(dag).levels, SplitLines(ret.text),
                           NodeLineIndices(SplitLines(ret.text)))

\* C27: in every connector block of a vertical rendering, in the
\* single-component pipeline and in the per-component rendering of a
\* disconnected graph, each vertical bar of the block's first line stands in
\* the text column of the center (left column + width / 2) of a node on the
\* node line above that has a child in the next level, and every such node has
\* its bar in that column.
C27_BarsAligned ==
    /\ C27_SingleComponent
    /\ C27_Components => \A sg \in LeveledComponents(dag) : ComponentAligned(dag, sg)


\* The nodes of a level stand left-packed in list order: the first at 0, each
\* following one 3 columns behind the end of the one before it.
LeftPacked(d, level_nodes, x_coords) ==
    \A k \in DOMAIN level_nodes :
        x_coords[level_nodes[k]]
            = IF k = 1 THEN 0
              ELSE x_coords[level_nodes[k - 1]] + get_node_width(d, level_nodes[k - 1]) + 3

\* C28: when assign_x_coordinates returns, every level is left-packed in its
\* list order (so the x-coordinates of a level increase strictly in list order
\* and two nodes of a level are at least 3 columns apart), and each level holds
\* the nodes it held when crossing reduction returned, each once: the
\* refinement changes at most their order.
C28_LeftPacked ==
    C7_Case =>
        LET reduced == reduce_crossings(dag, GroupByLevel(calculate_levels(dag).level_data))
            assigned == assign_x_coordinates(dag, reduced)
        IN  /\ Len(assigned.levels) = Len(reduced)
            /\ \A l \in DOMAIN reduced :
                   /\ LeftPacked(dag, assigned.levels[l], assigned.x_coords)
                   /\ \A j, k \in DOMAIN assigned.levels[l] :
                          j < k => assigned.x_coords[assigned.levels[l][j]]
                                       + get_node_width(dag, assigned.levels[l][j]) + 3
                                   <= assigned.x_coords[assigned.levels[l][k]]
                   /\ Len(assigned.levels[l]) = Len(reduced[l])
                   /\ Range(assigned.levels[l]) = Range(reduced[l])

\* A rendering of a graph in which the refinement moved a node of a lower
\* level to the right of a later node of its level: the level was re-sorted
\* and packed anew.
C28_Witness ==
    /\ C7_Case
    /\ LET reduced == reduce_crossings(dag, GroupByLevel(calculate_levels(dag).level_data))
       IN  \E l \in DOMAIN reduced :
               /\ Len(reduced[l]) > 1
               /\ assign_x_coordinates(dag, reduced).levels[l] /= reduced[l]


\* The weakly connected components of the node entries in S, in the order of
\* their lowest entry.
RECURSIVE ComponentsOf(_, _)
ComponentsOf(d, S) ==
    IF S = {} THEN << >>
    ELSE <<Component(d, {Min(S)})>> \o ComponentsOf(d, S \ Component(d, {Min(S)}))

\* The runs of lines between the empty lines of a sequence of lines.
RECURSIVE SplitBlocks(_)
SplitBlocks(lines) ==
    IF \A k \in DOMAIN lines : lines[k] /= << >> THEN <<lines>>
    ELSE LET i == Min({k \in DOMAIN lines : lines[k] = << >>})
         IN  <<SubSeq(lines, 1, i - 1)>> \o SplitBlocks(SubSeq(lines, i + 1, Len(lines)))

\* The places of a block where a node form opens: <<line, number of the form>>.
FormPlaces(block) ==
    UNION {{<<ln, k>> : k \in DOMAIN FormStarts(block[ln])} : ln \in DOMAIN block}

\* How often the form f is written on the lines of a block.
FormCount(block, f) ==
    Cardinality({p \in FormPlaces(block) :
                    FormAt(block[p[1]], FormStarts(block[p[1]])[p[2]]) = f})

\* The block shows the node entries in C and nothing else, each entry once.
ShowsEachOnce(d, C, block) ==
    /\ Cardinality(FormPlaces(block)) = Cardinality(C)
    /\ \A i \in C : FormCount(block, EntryForm(d, i))
                        = Cardinality({j \in C : EntryForm(d, j) = EntryForm(d, i)})

\* No node entry in C has more than one edge in or more than one edge out.
ChainComponent(d, C) ==
    \A i \in C : /\ Cardinality(InEdges(d, d.nodes[i][1])) <= 1
                 /\ Cardinality(OutEdges(d, d.nodes[i][1])) <= 1

\* The block is one line: the forms of the chain C from its root on, joined by
\* the right arrow.
ChainLine(d, C, block) ==
    /\ Len(block) = 1
    /\ block[1] = JoinForms(d, FirstChildWalk(d,
                      d.nodes[Min({i \in C : InEdges(d, d.nodes[i][1]) = {}})][1]))

\* render() took the vertical path on a graph without closed walk that has
\* more than one weakly connected component.
C29_Case ==
    /\ call.op = "render"
    /\ dag.nodes /= << >>
    /\ ~Connected(dag)
    /\ ~ClosedWalk(dag)
    /\ ResolvedMode(dag) = "Vertical"

\* C29: the vertical rendering of a graph without closed walk that has more
\* than one weakly connected component shows the components one after the
\* other in the order of their lowest node index, exactly one empty line
\* between two successive components and none elsewhere; the part of a
\* component shows the nodes of that component and no others, each once, so
\* every node of the graph is written exactly once; the part of a component
\* that is a simple chain is a single horizontal line.
C29_Components ==
    C29_Case =>
        LET comps == ComponentsOf(dag, DOMAIN dag.nodes)
            blocks == SplitBlocks(SplitLines(ret.text))
        IN  /\ Len(blocks) = Len(comps)
            /\ \A b \in DOMAIN blocks :
                   /\ blocks[b] /= << >>
                   /\ ShowsEachOnce(dag, comps[b], blocks[b])
                   /\ ChainComponent(dag, comps[b]) => ChainLine(dag, comps[b], blocks[b])
                   /\ ~ChainComponent(dag, comps[b]) => Len(blocks[b]) > 1

\* A rendering of three components: a chain of two nodes, a single node and a
\* later pair, the chain written on one line although its root is listed
\* after its end.
C29_Witness ==
    /\ C29_Case
    /\ MapIsBijection(dag)
    /\ Len(ComponentsOf(dag, DOMAIN dag.nodes)) >= 2
    /\ \E C \in Range(ComponentsOf(dag, DOMAIN dag.nodes)) :
           /\ ChainComponent(dag, C) /\ Cardinality(C) >= 2
           /\ Min({i \in C : InEdges(dag, dag.nodes[i][1]) = {}}) /= Min(C)
    /\ \E C \in Range(ComponentsOf(dag, DOMAIN dag.nodes)) : ~ChainComponent(dag, C)


\* The same for the graphs in which no id is carried by two node entries.
C29_DistinctIds == MapIsBijection(dag) => C29_Components


\* C30: assign_x_coordinates maintains the ordering from crossing reduction:
\* in the vertical rendering of a connected graph without closed walk, the
\* nodes of every level stand after coordinate assignment in the order in
\* which reduce_crossings left them.
C30_OrderKept ==
    C7_Case =>
        LET reduced == reduce_crossings(dag, GroupByLevel(calculate_levels(dag).level_data))
        IN  assign_x_coordinates(dag, reduced).levels = reduced

====
